---- MODULE Spec2Model ----
(***************************************************************************)
(* Model of the report generator's parsing / aggregation / formatting      *)
(* pipeline (src/src/message_parser.py, src/src/report_generator.py).      *)
(*                                                                         *)
(* Python strings are TLA+ strings; a character is a string of length 1.   *)
(* The alphabet is ASCII: the non-ASCII members of the source's character  *)
(* classes and its emoji header patterns cannot occur in the texts below.  *)
(* A Python Optional is a sequence of length 0 (None) or 1.                *)
(* A Python dict is the sequence of its <<key, value>> pairs in insertion  *)
(* order.                                                                  *)
(***************************************************************************)
EXTENDS Integers, Sequences, FiniteSets, TLC

VARIABLES
    messages,    \* the SlackMessage sequence handed to parse_messages
    message,     \* the SlackMessage handed to the parser
    content,     \* the section content handed to _parse_tasks
    op,          \* the operation that produced the current results
    accepted,    \* result of is_status_update
    sections,    \* result of _split_into_sections
    tasks,       \* result of _parse_tasks
    status,      \* result of parse_message (Optional DailyStatus)
    statuses,    \* the DailyStatus sequence handed to aggregate / generate
    aggregated,  \* result of StatusAggregator.aggregate (Optional)
    done_tasks,  \* the assignee -> tasks dict handed to _categorize_tasks
    categorized, \* result of _categorize_tasks
    generator,   \* the ReportGenerator (Optional; its constructor arguments)
    notes,       \* the extra notes handed to generate (Optional list)
    report,      \* result of ReportGenerator.generate
    calls,       \* the methods generate ran, in call order
    args,        \* the arguments of the last generate call (Optional)
    response     \* what an entry point ended with (Optional)

vars == <<messages, message, content, op, accepted, sections, tasks, status,
          statuses, aggregated, done_tasks, categorized, generator, notes, report,
          calls, args, response>>

parserVars == <<messages, message, content, accepted, sections, tasks, status>>
aggVars == <<statuses, aggregated>>
catVars == <<done_tasks, categorized>>
reportVars == <<generator, notes, report, calls, args, response>>

----------------------------------------------------------------------------
(* Python values *)

None == <<>>
Some(x) == <<x>>
IsNone(o) == o = <<>>
Val(o) == o[1]

\* dict helpers: d is a sequence of <<key, value>> pairs, keys unique
DictKeys(d) == [i \in 1..Len(d) |-> d[i][1]]
DictHas(d, k) == \E i \in 1..Len(d) : d[i][1] = k
DictGet(d, k) == d[CHOOSE i \in 1..Len(d) : d[i][1] = k][2]
DictSet(d, k, v) ==
    IF DictHas(d, k)
    THEN [i \in 1..Len(d) |-> IF d[i][1] = k THEN <<k, v>> ELSE d[i]]
    ELSE Append(d, <<k, v>>)

SeqToSet(s) == {s[i] : i \in 1..Len(s)}

Min(S) == CHOOSE x \in S : \A y \in S : x <= y
Max(S) == CHOOSE x \in S : \A y \in S : x >= y

----------------------------------------------------------------------------
(* Python str operations *)

\* the character at index i, "" outside the string
Ch(s, i) == IF 1 <= i /\ i <= Len(s) THEN SubSeq(s, i, i) ELSE ""
From(s, i) == SubSeq(s, i, Len(s))

Whitespace == {" ", "\n", "\t"}
Digits == {"0", "1", "2", "3", "4", "5", "6", "7", "8", "9"}
UpperAlpha == "ABCDEFGHIJKLMNOPQRSTUVWXYZ"
LowerAlpha == "abcdefghijklmnopqrstuvwxyz"
Upper == {Ch(UpperAlpha, i) : i \in 1..Len(UpperAlpha)}
Letters == Upper \cup {Ch(LowerAlpha, i) : i \in 1..Len(LowerAlpha)}

LowerChar(c) ==
    IF c \in Upper
    THEN Ch(LowerAlpha, CHOOSE i \in 1..Len(UpperAlpha) : Ch(UpperAlpha, i) = c)
    ELSE c

\* str.lower(), halving the string to keep the evaluation shallow
RECURSIVE Lower(_)
Lower(s) ==
    IF Len(s) = 0 THEN ""
    ELSE IF Len(s) = 1 THEN LowerChar(s)
    ELSE LET h == Len(s) \div 2
         IN  Lower(SubSeq(s, 1, h)) \o Lower(SubSeq(s, h + 1, Len(s)))

\* index just after the longest run of characters of class C that starts at i
SkipClass(s, i, C) ==
    CHOOSE j \in i..(Len(s) + 1) :
        Ch(s, j) \notin C /\ \A k \in i..(j - 1) : Ch(s, k) \in C

\* index just before the longest run of characters of class C that ends at j
RSkipClass(s, j, C) ==
    CHOOSE i \in 0..j :
        Ch(s, i) \notin C /\ \A k \in (i + 1)..j : Ch(s, k) \in C

\* str.strip()
Strip(s) ==
    SubSeq(s, SkipClass(s, 1, Whitespace), RSkipClass(s, Len(s), Whitespace))

\* str.startswith / the `in` operator on strings
StartsWith(s, p) == Len(p) <= Len(s) /\ SubSeq(s, 1, Len(p)) = p
Contains(s, p) ==
    \E i \in 1..(Len(s) - Len(p) + 1) : SubSeq(s, i, i + Len(p) - 1) = p

\* index of the first occurrence of character c at or after i, else Len(s)+1
Find(s, c, i) ==
    CHOOSE j \in i..(Len(s) + 1) :
        (j > Len(s) \/ Ch(s, j) = c) /\ \A k \in i..(j - 1) : Ch(s, k) # c

\* str.split("\n")
RECURSIVE SplitLinesFrom(_, _)
SplitLinesFrom(s, i) ==
    LET j == Find(s, "\n", i)
    IN  IF j > Len(s)
        THEN <<SubSeq(s, i, Len(s))>>
        ELSE <<SubSeq(s, i, j - 1)>> \o SplitLinesFrom(s, j + 1)

SplitLines(s) == SplitLinesFrom(s, 1)

\* sep.join(parts)
RECURSIVE Join(_, _)
Join(parts, sep) ==
    IF Len(parts) = 0 THEN ""
    ELSE IF Len(parts) = 1 THEN parts[1]
    ELSE LET h == Len(parts) \div 2
         IN  Join(SubSeq(parts, 1, h), sep) \o sep
                 \o Join(SubSeq(parts, h + 1, Len(parts)), sep)

----------------------------------------------------------------------------
(* MessageParser: patterns *)

SectionNames == <<"done", "in_progress", "planned", "blockers">>

\* SECTION_PATTERNS: per section, the literal alternatives of its patterns in
\* pattern order. Each pattern is (?:a|b|...)[\s:]*, so pattern.match succeeds
\* exactly when one alternative is a prefix of the line.
SECTION_PATTERNS ==
    << <<"done", <<"done", "completed", "finished", "accomplished",
                   "what i did", "what i've done", "yesterday", "today i did">> >>,
       <<"in_progress", <<"in progress", "working on", "currently", "ongoing",
                          "today", "doing today", "working today">> >>,
       <<"planned", <<"planned", "next", "tomorrow", "will do", "planning to",
                      "next steps", "upcoming", "goals">> >>,
       <<"blockers", <<"blocked", "blockers", "issues", "problems", "stuck",
                       "need help", "questions", "concerns">> >> >>

\* character classes of the list, split and trailing-dash patterns
ListChars == {"-", "*", "."} \cup Digits
BulletChars == {"-", "*"}
DashChars == {"-"}

\* the anchor (?:^|\n) ends just before index p
LineAnchor(s, p) == p = 1 \/ (p > 1 /\ Ch(s, p - 1) = "\n")

\* TICKET_PATTERN ([A-Z]+-\d+) matches starting at index i
TicketAt(s, i) ==
    /\ Ch(s, i) \in Upper
    /\ LET j == SkipClass(s, i, Upper)
       IN  Ch(s, j) = "-" /\ Ch(s, j + 1) \in Digits

\* ticket_re.search(s): group(1) of the leftmost match, or None
ticket_re_search(s) ==
    LET hits == {i \in 1..Len(s) : TicketAt(s, i)}
    IN  IF hits = {} THEN None
        ELSE LET i == Min(hits)
                 j == SkipClass(s, i, Upper)
             IN  Some(SubSeq(s, i, SkipClass(s, j + 1, Digits) - 1))

\* pr_re.search(s) for PR_PATTERN (?:PR\s*)?#(\d+): group(1), or None
pr_re_search(s) ==
    LET hits == {i \in 1..Len(s) : Ch(s, i) = "#" /\ Ch(s, i + 1) \in Digits}
    IN  IF hits = {} THEN None
        ELSE LET i == Min(hits)
             IN  Some(SubSeq(s, i + 1, SkipClass(s, i + 1, Digits) - 1))

\* ASSIGNEE_PATTERN @([A-Za-z]+(?:\s+[A-Za-z]+)?) matches starting at index i
AssigneeAt(s, i) == Ch(s, i) = "@" /\ Ch(s, i + 1) \in Letters

\* index just after the match of ASSIGNEE_PATTERN that starts at i
AssigneeEnd(s, i) ==
    LET j == SkipClass(s, i + 1, Letters)
        w == SkipClass(s, j, Whitespace)
    IN  IF w > j /\ Ch(s, w) \in Letters THEN SkipClass(s, w, Letters) ELSE j

\* assignee_re.search(s): group(1) of the leftmost match, or None
assignee_re_search(s) ==
    LET hits == {i \in 1..Len(s) : AssigneeAt(s, i)}
    IN  IF hits = {} THEN None
        ELSE LET i == Min(hits)
             IN  Some(SubSeq(s, i + 1, AssigneeEnd(s, i) - 1))

\* assignee_re.sub("", s): every match removed, left to right
RECURSIVE assignee_re_sub(_)
assignee_re_sub(s) ==
    LET hits == {i \in 1..Len(s) : AssigneeAt(s, i)}
    IN  IF hits = {} THEN s
        ELSE LET i == Min(hits)
             IN  SubSeq(s, 1, i - 1) \o assignee_re_sub(From(s, AssigneeEnd(s, i)))

\* The split pattern (?:^|\n)\s*[-*]\s*|\n\s*\d+\.\s* : index just after the
\* match that starts at index p, or 0 when none starts there. ^ is the start
\* of the string only (no MULTILINE).
SplitMatchEnd(s, p) ==
    LET a == IF p = 1 THEN 1 ELSE p + 1
        q == SkipClass(s, a, Whitespace)
        n == SkipClass(s, p + 1, Whitespace)
        r == SkipClass(s, n, Digits)
    IN  IF (p = 1 \/ Ch(s, p) = "\n") /\ Ch(s, q) \in BulletChars
        THEN SkipClass(s, q + 1, Whitespace)
        ELSE IF Ch(s, p) = "\n" /\ r > n /\ Ch(s, r) = "."
        THEN SkipClass(s, r + 1, Whitespace)
        ELSE 0

\* re.split(pattern, s), scanning from index pos with the current piece
\* starting at index start
RECURSIVE re_split_from(_, _, _)
re_split_from(s, pos, start) ==
    LET hits == {p \in pos..Len(s) : SplitMatchEnd(s, p) # 0}
    IN  IF hits = {} THEN <<SubSeq(s, start, Len(s))>>
        ELSE LET p == Min(hits)
                 e == SplitMatchEnd(s, p)
             IN  <<SubSeq(s, start, p - 1)>> \o re_split_from(s, e, e)

re_split(s) == re_split_from(s, 1, 1)

\* re.sub(r"\s*[-]\s*$", "", d) on a stripped d: a final dash and the
\* whitespace before it are removed, once
trailing_dash_sub(d) ==
    IF Len(d) > 0 /\ Ch(d, Len(d)) \in DashChars
    THEN SubSeq(d, 1, RSkipClass(d, Len(d) - 1, Whitespace))
    ELSE d

----------------------------------------------------------------------------
(* MessageParser *)

MinKeywords == 2
MinLength == 100
MinScore == 2
MinItemLen == 5

section_keywords ==
    <<"done", "completed", "in progress", "working on", "blocked", "next",
      "planned", "today", "yesterday">>

\* the four signals of is_status_update
has_sections(text) ==
    Cardinality({i \in 1..Len(section_keywords) :
                    Contains(Lower(text), section_keywords[i])}) >= MinKeywords

\* re.search(r"(?:^|\n)\s*[-*\d.]\s+", text)
has_lists(text) ==
    \E p \in 1..Len(text) :
        /\ LineAnchor(text, p)
        /\ LET q == SkipClass(text, p, Whitespace)
           IN  Ch(text, q) \in ListChars /\ Ch(text, q + 1) \in Whitespace

has_tickets(text) == ~IsNone(ticket_re_search(text))

has_length(text) == Len(text) > MinLength

Bit(b) == IF b THEN 1 ELSE 0

score(text) ==
    Bit(has_sections(text)) + Bit(has_lists(text)) + Bit(has_tickets(text))
        + Bit(has_length(text))

\* variant: the threshold compared strictly
is_status_update_strict(msg) == score(msg.text) > MinScore

is_status_update(msg) == score(msg.text) >= MinScore

\* variant: a pattern may match anywhere in the line
RECURSIVE detect_section_anywhere(_, _)
detect_section_anywhere(line_lower, k) ==
    IF k > Len(SECTION_PATTERNS) THEN None
    ELSE IF \E a \in 1..Len(SECTION_PATTERNS[k][2]) :
                Contains(line_lower, SECTION_PATTERNS[k][2][a])
    THEN Some(SECTION_PATTERNS[k][1])
    ELSE detect_section_anywhere(line_lower, k + 1)

\* the section whose pattern matches line_lower first, in dict order, or None
RECURSIVE detect_section(_, _)
detect_section(line_lower, k) ==
    IF k > Len(SECTION_PATTERNS) THEN None
    ELSE IF \E a \in 1..Len(SECTION_PATTERNS[k][2]) :
                StartsWith(line_lower, SECTION_PATTERNS[k][2][a])
    THEN Some(SECTION_PATTERNS[k][1])
    ELSE detect_section(line_lower, k + 1)

\* "Save previous section" / "Save last section"
save_section(secs, current_section, current_content) ==
    IF ~IsNone(current_section) /\ Len(current_content) > 0
    THEN DictSet(secs, Val(current_section), Join(current_content, "\n"))
    ELSE secs

\* variant: the lines are collected trimmed
RECURSIVE split_loop_trimmed(_, _, _, _, _)
split_loop_trimmed(lines, i, secs, current_section, current_content) ==
    IF i > Len(lines) THEN save_section(secs, current_section, current_content)
    ELSE LET detected_section == detect_section(Strip(Lower(lines[i])), 1)
         IN  IF ~IsNone(detected_section)
             THEN split_loop_trimmed(lines, i + 1,
                             save_section(secs, current_section, current_content),
                             detected_section, <<>>)
             ELSE IF ~IsNone(current_section)
             THEN split_loop_trimmed(lines, i + 1, secs, current_section,
                             Append(current_content, Strip(lines[i])))
             ELSE split_loop_trimmed(lines, i + 1, secs, current_section,
                                     current_content)

\* the loop of _split_into_sections over lines[i..]
RECURSIVE split_loop(_, _, _, _, _)
split_loop(lines, i, secs, current_section, current_content) ==
    IF i > Len(lines) THEN save_section(secs, current_section, current_content)
    ELSE LET detected_section == detect_section(Strip(Lower(lines[i])), 1)
         IN  IF ~IsNone(detected_section)
             THEN split_loop(lines, i + 1,
                             save_section(secs, current_section, current_content),
                             detected_section, <<>>)
             ELSE IF ~IsNone(current_section)
             THEN split_loop(lines, i + 1, secs, current_section,
                             Append(current_content, lines[i]))
             ELSE split_loop(lines, i + 1, secs, current_section, current_content)

_split_into_sections(text) == split_loop(SplitLines(text), 1, <<>>, None, <<>>)

\* description of an item after the two clean-up steps
clean_description(item) == Strip(trailing_dash_sub(Strip(assignee_re_sub(item))))

\* the Task built from one fragment
make_task(item, default_assignee) ==
    LET assignee_match == assignee_re_search(item)
    IN  [description |-> clean_description(item),
         assignee |-> IF IsNone(assignee_match) THEN default_assignee
                      ELSE Val(assignee_match),
         status |-> "done",
         ticket_id |-> ticket_re_search(item),
         pr_number |-> pr_re_search(item)]

\* variant: the loop without the final `if description` guard
RECURSIVE parse_items_unguarded(_, _, _)
parse_items_unguarded(items, i, default_assignee) ==
    IF i > Len(items) THEN <<>>
    ELSE LET item == Strip(items[i])
             rest == parse_items_unguarded(items, i + 1, default_assignee)
         IN  IF Len(item) < MinItemLen THEN rest
             ELSE <<make_task(item, default_assignee)>> \o rest

\* variant: the loop with neither the length test nor the `if description` guard
RECURSIVE parse_items_every(_, _, _)
parse_items_every(items, i, default_assignee) ==
    IF i > Len(items) THEN <<>>
    ELSE <<make_task(Strip(items[i]), default_assignee)>>
             \o parse_items_every(items, i + 1, default_assignee)

\* variant: the loop without the length test
RECURSIVE parse_items_any_length(_, _, _)
parse_items_any_length(items, i, default_assignee) ==
    IF i > Len(items) THEN <<>>
    ELSE LET item == Strip(items[i])
             rest == parse_items_any_length(items, i + 1, default_assignee)
         IN  IF clean_description(item) = "" THEN rest
             ELSE <<make_task(item, default_assignee)>> \o rest

\* the loop of _parse_tasks over items[i..]
RECURSIVE parse_items(_, _, _)
parse_items(items, i, default_assignee) ==
    IF i > Len(items) THEN <<>>
    ELSE LET item == Strip(items[i])
             rest == parse_items(items, i + 1, default_assignee)
         IN  IF Len(item) < MinItemLen THEN rest
             ELSE IF clean_description(item) = "" THEN rest
             ELSE <<make_task(item, default_assignee)>> \o rest

_parse_tasks(text, default_assignee) ==
    parse_items(re_split(text), 1, default_assignee)

\* the loop of parse_message over sections.items()
RECURSIVE parse_sections(_, _, _, _)
parse_sections(st, secs, i, user_name) ==
    IF i > Len(secs) THEN st
    ELSE LET section_type == secs[i][1]
             parsed == _parse_tasks(secs[i][2], user_name)
         IN  parse_sections(
                 CASE section_type = "done" -> [st EXCEPT !.done = parsed]
                   [] section_type = "in_progress" ->
                          [st EXCEPT !.in_progress = parsed]
                   [] section_type = "planned" -> [st EXCEPT !.planned = parsed]
                   [] section_type = "blockers" ->
                          [st EXCEPT !.blockers =
                              [j \in 1..Len(parsed) |-> parsed[j].description]]
                   [] OTHER -> st,
                 secs, i + 1, user_name)

DailyStatus(author, date, raw_text) ==
    [author |-> author, date |-> date, done |-> <<>>, in_progress |-> <<>>,
     planned |-> <<>>, blockers |-> <<>>, notes |-> <<>>, raw_text |-> raw_text]

parse_message(msg) ==
    IF ~is_status_update(msg) THEN None
    ELSE Some(parse_sections(DailyStatus(msg.user_name, msg.timestamp, msg.text),
                             _split_into_sections(msg.text), 1, msg.user_name))

\* variant: the loop without the `if status` test of an accepted message
RECURSIVE parse_messages_unfiltered(_)
parse_messages_unfiltered(msgs) ==
    IF Len(msgs) = 0 THEN <<>>
    ELSE LET msg == Head(msgs)
         IN  <<parse_sections(DailyStatus(msg.user_name, msg.timestamp, msg.text),
                              _split_into_sections(msg.text), 1, msg.user_name)>>
                 \o parse_messages_unfiltered(Tail(msgs))

RECURSIVE parse_messages(_)
parse_messages(msgs) ==
    IF Len(msgs) = 0 THEN <<>>
    ELSE LET st == parse_message(Head(msgs))
         IN  (IF IsNone(st) THEN <<>> ELSE <<Val(st)>>)
                 \o parse_messages(Tail(msgs))

----------------------------------------------------------------------------
(* StatusAggregator *)

PrefixLen == 50

Categories == <<"done", "in_progress", "planned">>

\* Python truthiness of an Optional[str]
Truthy(o) == ~IsNone(o) /\ Val(o) # ""

\* s[:n]
Prefix(s, n) == SubSeq(s, 1, IF Len(s) < n THEN Len(s) ELSE n)

\* task.description.lower().strip()[:50]
normalized(task) == Prefix(Strip(Lower(task.description)), PrefixLen)

\* variant: a task is put in front of its assignee's list
RECURSIVE add_tasks_prepending(_, _, _)
add_tasks_prepending(bucket, items, i) ==
    IF i > Len(items) THEN bucket
    ELSE LET task == items[i]
             old == IF DictHas(bucket, task.assignee)
                    THEN DictGet(bucket, task.assignee) ELSE <<>>
         IN  add_tasks_prepending(DictSet(bucket, task.assignee,
                                          <<task>> \o old), items, i + 1)

\* bucket[task.assignee].append(task) for every task of items[i..]
RECURSIVE add_tasks(_, _, _)
add_tasks(bucket, items, i) ==
    IF i > Len(items) THEN bucket
    ELSE LET task == items[i]
             old == IF DictHas(bucket, task.assignee)
                    THEN DictGet(bucket, task.assignee) ELSE <<>>
         IN  add_tasks(DictSet(bucket, task.assignee, Append(old, task)),
                       items, i + 1)

\* variant: the first status alone fixes date_range
add_status_seeded(agg, st) ==
    [done |-> add_tasks(agg.done, st.done, 1),
     in_progress |-> add_tasks(agg.in_progress, st.in_progress, 1),
     planned |-> add_tasks(agg.planned, st.planned, 1),
     blockers |-> agg.blockers \o st.blockers,
     notes |-> agg.notes \o st.notes,
     authors |-> agg.authors \cup {st.author},
     date_range |->
        [start |-> IF IsNone(agg.date_range.start) THEN Some(st.date)
                   ELSE agg.date_range.start,
         end |-> IF IsNone(agg.date_range.end) THEN Some(st.date)
                 ELSE agg.date_range.end]]

\* one iteration of the loop of aggregate
add_status(agg, st) ==
    [done |-> add_tasks(agg.done, st.done, 1),
     in_progress |-> add_tasks(agg.in_progress, st.in_progress, 1),
     planned |-> add_tasks(agg.planned, st.planned, 1),
     blockers |-> agg.blockers \o st.blockers,
     notes |-> agg.notes \o st.notes,
     authors |-> agg.authors \cup {st.author},
     date_range |->
        [start |-> IF IsNone(agg.date_range.start) THEN Some(st.date)
                   ELSE Some(Min({Val(agg.date_range.start), st.date})),
         end |-> IF IsNone(agg.date_range.end) THEN Some(st.date)
                 ELSE Some(Max({Val(agg.date_range.end), st.date}))]]

\* the dict aggregate starts from; authors is kept as the set it is built as
EmptyAggregated ==
    [done |-> <<>>, in_progress |-> <<>>, planned |-> <<>>, blockers |-> <<>>,
     notes |-> <<>>, authors |-> {},
     date_range |-> [start |-> None, end |-> None]]

\* the loop of aggregate over sts[i..]
RECURSIVE collect(_, _, _)
collect(agg, sts, i) ==
    IF i > Len(sts) THEN agg ELSE collect(add_status(agg, sts[i]), sts, i + 1)

\* variant: a kept ticket is not recorded in seen_tickets
RECURSIVE unique_tasks_forgetful(_, _, _, _)
unique_tasks_forgetful(items, i, seen_tickets, seen_descriptions) ==
    IF i > Len(items) THEN <<>>
    ELSE LET task == items[i]
         IN  IF Truthy(task.ticket_id)
             THEN IF Val(task.ticket_id) \notin seen_tickets
                  THEN <<task>> \o unique_tasks_forgetful(items, i + 1,
                           seen_tickets, seen_descriptions)
                  ELSE unique_tasks_forgetful(items, i + 1, seen_tickets,
                                              seen_descriptions)
             ELSE IF normalized(task) \notin seen_descriptions
                  THEN <<task>> \o unique_tasks_forgetful(items, i + 1,
                           seen_tickets,
                           seen_descriptions \cup {normalized(task)})
                  ELSE unique_tasks_forgetful(items, i + 1, seen_tickets,
                                              seen_descriptions)

\* variant: a kept item with a ticket also records its description
RECURSIVE unique_tasks_shared(_, _, _, _)
unique_tasks_shared(items, i, seen_tickets, seen_descriptions) ==
    IF i > Len(items) THEN <<>>
    ELSE LET task == items[i]
         IN  IF Truthy(task.ticket_id)
             THEN IF Val(task.ticket_id) \notin seen_tickets
                  THEN <<task>> \o unique_tasks_shared(items, i + 1,
                           seen_tickets \cup {Val(task.ticket_id)},
                           seen_descriptions \cup {normalized(task)})
                  ELSE unique_tasks_shared(items, i + 1, seen_tickets,
                                           seen_descriptions)
             ELSE IF normalized(task) \notin seen_descriptions
                  THEN <<task>> \o unique_tasks_shared(items, i + 1, seen_tickets,
                           seen_descriptions \cup {normalized(task)})
                  ELSE unique_tasks_shared(items, i + 1, seen_tickets,
                                           seen_descriptions)

\* the inner loop of _deduplicate_tasks over items[i..]
RECURSIVE unique_tasks(_, _, _, _)
unique_tasks(items, i, seen_tickets, seen_descriptions) ==
    IF i > Len(items) THEN <<>>
    ELSE LET task == items[i]
         IN  IF Truthy(task.ticket_id)
             THEN IF Val(task.ticket_id) \notin seen_tickets
                  THEN <<task>> \o unique_tasks(items, i + 1,
                           seen_tickets \cup {Val(task.ticket_id)},
                           seen_descriptions)
                  ELSE unique_tasks(items, i + 1, seen_tickets, seen_descriptions)
             ELSE IF normalized(task) \notin seen_descriptions
                  THEN <<task>> \o unique_tasks(items, i + 1, seen_tickets,
                           seen_descriptions \cup {normalized(task)})
                  ELSE unique_tasks(items, i + 1, seen_tickets, seen_descriptions)

\* the loop of _deduplicate_tasks over the assignees of one category
dedup_bucket(bucket) ==
    [k \in 1..Len(bucket) |->
        <<bucket[k][1], unique_tasks(bucket[k][2], 1, {}, {})>>]

\* the orders list(set(xs)) can produce
SetOrders(xs) ==
    {o \in [1..Cardinality(SeqToSet(xs)) -> SeqToSet(xs)] :
        SeqToSet(o) = SeqToSet(xs)}

\* variant: the tickets kept in done are seen tickets for in_progress
_deduplicate_tasks_across(agg, blockers_order, notes_order) ==
    LET done == dedup_bucket(agg.done)
        seen == UNION {{Val(done[k][2][i].ticket_id) :
                           i \in {j \in 1..Len(done[k][2]) :
                                     Truthy(done[k][2][j].ticket_id)}} :
                       k \in 1..Len(done)}
    IN  [agg EXCEPT !.done = done,
                    !.in_progress =
                        [k \in 1..Len(agg.in_progress) |->
                            <<agg.in_progress[k][1],
                              unique_tasks(agg.in_progress[k][2], 1, seen, {})>>],
                    !.planned = dedup_bucket(agg.planned),
                    !.blockers = blockers_order,
                    !.notes = notes_order]

\* _deduplicate_tasks; list(set(...)) leaves the order of blockers and notes
\* open, so the caller passes the order it takes
_deduplicate_tasks(agg, blockers_order, notes_order) ==
    [agg EXCEPT !.done = dedup_bucket(agg.done),
                !.in_progress = dedup_bucket(agg.in_progress),
                !.planned = dedup_bucket(agg.planned),
                !.blockers = blockers_order,
                !.notes = notes_order]

\* the results aggregate(sts) can return
aggregate(sts) ==
    LET agg == collect(EmptyAggregated, sts, 1)
    IN  {_deduplicate_tasks(agg, bo, no) :
            bo \in SetOrders(agg.blockers), no \in SetOrders(agg.notes)}

----------------------------------------------------------------------------
(* ReportGenerator._categorize_tasks *)

\* the keys of `categories`, in insertion order
CategoryLabels ==
    <<"Feature Development", "Bug Fixes", "Code & Infrastructure",
      "Documentation", "New Team Member Onboarding", "Other">>

category_keywords ==
    << <<"Feature Development",
         <<"feature", "implement", "add", "create", "build", "develop", "show",
           "display", "handle", "print", "export", "v2-", "v1-">> >>,
       <<"Bug Fixes",
         <<"fix", "bug", "issue", "error", "patch", "resolve", "correct">> >>,
       <<"Code & Infrastructure",
         <<"refactor", "clean", "remove", "update", "deploy", "infrastructure",
           "database", "api", "config", "setup", "pr", "code review", "swagger",
           "postman", "dump", "migration">> >>,
       <<"Documentation",
         <<"doc", "readme", "comment", "guide", "tutorial", "overview">> >>,
       <<"New Team Member Onboarding",
         <<"onboard", "setup", "environment", "local", "new team", "welcome",
           "training", "overview session", "familiarization">> >> >>

\* some keyword of the list is in description_lower or in ticket_lower
keyword_hit(task, keywords) ==
    LET description_lower == Lower(task.description)
        ticket_lower == Lower(IF Truthy(task.ticket_id) THEN Val(task.ticket_id)
                              ELSE "")
    IN  \E k \in 1..Len(keywords) :
            \/ Contains(description_lower, keywords[k])
            \/ Contains(ticket_lower, keywords[k])

\* variant: the ticket id is not looked at
RECURSIVE category_of_description(_, _)
category_of_description(task, c) ==
    IF c > Len(category_keywords) THEN "Other"
    ELSE IF \E k \in 1..Len(category_keywords[c][2]) :
                Contains(Lower(task.description), category_keywords[c][2][k])
    THEN category_keywords[c][1]
    ELSE category_of_description(task, c + 1)

\* the category the keyword loops put the task in, trying categories c, c+1, ...
RECURSIVE category_of(_, _)
category_of(task, c) ==
    IF c > Len(category_keywords) THEN "Other"
    ELSE IF keyword_hit(task, category_keywords[c][2])
    THEN category_keywords[c][1]
    ELSE category_of(task, c + 1)

\* categories[category][assignee].append(task)
append_to(categories, category, assignee, task) ==
    LET inner == DictGet(categories, category)
        old == IF DictHas(inner, assignee) THEN DictGet(inner, assignee)
               ELSE <<>>
    IN  DictSet(categories, category, DictSet(inner, assignee, Append(old, task)))

\* variant: the loops do not stop at the first category that hits
RECURSIVE place_in_all(_, _, _, _)
place_in_all(categories, assignee, task, c) ==
    IF c > Len(category_keywords)
    THEN IF category_of(task, 1) = "Other"
         THEN append_to(categories, "Other", assignee, task)
         ELSE categories
    ELSE place_in_all(
             IF keyword_hit(task, category_keywords[c][2])
             THEN append_to(categories, category_keywords[c][1], assignee, task)
             ELSE categories,
             assignee, task, c + 1)

place_everywhere(categories, assignee, task) ==
    place_in_all(categories, assignee, task, 1)

\* the body of the loop over one assignee's tasks
place(categories, assignee, task) ==
    append_to(categories, category_of(task, 1), assignee, task)

RECURSIVE place_tasks(_, _, _, _)
place_tasks(categories, assignee, items, i) ==
    IF i > Len(items) THEN categories
    ELSE place_tasks(place(categories, assignee, items[i]), assignee, items, i + 1)

RECURSIVE place_assignees(_, _, _)
place_assignees(categories, tasks_by_assignee, k) ==
    IF k > Len(tasks_by_assignee) THEN categories
    ELSE place_assignees(
             place_tasks(categories, tasks_by_assignee[k][1],
                         tasks_by_assignee[k][2], 1),
             tasks_by_assignee, k + 1)

NonEmpty(entry) == Len(entry[2]) > 0

_categorize_tasks(tasks_by_assignee) ==
    SelectSeq(place_assignees([c \in 1..Len(CategoryLabels) |->
                                  <<CategoryLabels[c], <<>> >>],
                              tasks_by_assignee, 1),
              NonEmpty)

----------------------------------------------------------------------------
(* ReportGenerator *)

\* Instants are days 1..9 of November 2026; strftime is modelled on them.
DayDigits == <<"1", "2", "3", "4", "5", "6", "7", "8", "9">>

\* strftime('%B %d')
strftime_B_d(t) == "November 0" \o DayDigits[t]

\* strftime('%B %d, %Y')
strftime_B_d_Y(t) == strftime_B_d(t) \o ", 2026"

\* strftime("%b %d, %Y, %I:%M %p")
strftime_header(t) == "Nov 0" \o DayDigits[t] \o ", 2026, 09:30 AM"

\* strftime('%B %d, %Y at %I:%M %p')
strftime_generated(t) == strftime_B_d_Y(t) \o " at 09:30 AM"

\* ", ".join / "\n".join
CommaJoin(parts) == Join(parts, ", ")
LineJoin(lines) == Join(lines, "\n")

_generate_header(gen, agg, now) ==
    LET start_date == agg.date_range.start
        end_date == agg.date_range.end
        date_range ==
            IF ~IsNone(start_date) /\ ~IsNone(end_date)
            THEN strftime_B_d(Val(start_date)) \o " to "
                     \o strftime_B_d_Y(Val(end_date))
            ELSE "the current week ending " \o strftime_B_d_Y(now)
        sender_line ==
            IF gen.sender_email # ""
            THEN gen.sender_name \o " <" \o gen.sender_email \o ">"
            ELSE gen.sender_name
    IN  LineJoin(
            <<sender_line, strftime_header(now)>>
            \o (IF Len(gen.recipients_to) > 0
                THEN <<"to: " \o CommaJoin(gen.recipients_to)>> ELSE <<>>)
            \o (IF Len(gen.recipients_cc) > 0
                THEN <<"cc: " \o CommaJoin(gen.recipients_cc)>> ELSE <<>>)
            \o <<"", "Hi all,", "", "Hope you are doing well!", "",
                 "Please find below the End of Week Update covering the period from "
                     \o date_range \o ":",
                 "">>)

\* variant: the additional notes are used only when no note was aggregated
section_notes_either(agg, additional_notes) ==
    IF Len(agg.notes) > 0 THEN agg.notes
    ELSE IF ~IsNone(additional_notes) THEN Val(additional_notes)
    ELSE <<>>

\* the notes list of the NOTES section: aggregated notes, then the additional
\* notes when that argument is a non-empty list
section_notes(agg, additional_notes) ==
    IF ~IsNone(additional_notes) /\ Len(Val(additional_notes)) > 0
    THEN agg.notes \o Val(additional_notes)
    ELSE agg.notes

_generate_notes_section(agg, additional_notes) ==
    LET ns == section_notes(agg, additional_notes)
    IN  LineJoin(<<"1. NOTES">>
                 \o (IF Len(ns) > 0 THEN [i \in 1..Len(ns) |-> "- " \o ns[i]]
                     ELSE <<"- No special notes this week">>)
                 \o <<"">>)

\* variant: the PR part is always written
_format_task_with_pr(task) ==
    Join((IF Truthy(task.ticket_id) THEN <<Val(task.ticket_id) \o ":">> ELSE <<>>)
         \o <<task.description>>
         \o <<"- PR #" \o (IF Truthy(task.pr_number) THEN Val(task.pr_number) ELSE "")>>
         \o <<"- @" \o task.assignee>>,
         " ")

_format_task(task) ==
    Join((IF Truthy(task.ticket_id) THEN <<Val(task.ticket_id) \o ":">> ELSE <<>>)
         \o <<task.description>>
         \o (IF Truthy(task.pr_number) THEN <<"- PR #" \o Val(task.pr_number)>>
             ELSE <<>>)
         \o <<"- @" \o task.assignee>>,
         " ")

\* the lines of the tasks of the dict's entries k.., assignee by assignee
RECURSIVE task_lines(_, _)
task_lines(tasks_by_assignee, k) ==
    IF k > Len(tasks_by_assignee) THEN <<>>
    ELSE [i \in 1..Len(tasks_by_assignee[k][2]) |->
             _format_task(tasks_by_assignee[k][2][i])]
         \o task_lines(tasks_by_assignee, k + 1)

\* the lines of the categories c.. of the DONE section
RECURSIVE category_lines(_, _)
category_lines(cats, c) ==
    IF c > Len(cats) THEN <<>>
    ELSE (IF Len(cats[c][2]) > 0
          THEN <<"\n" \o cats[c][1], "">> \o task_lines(cats[c][2], 1)
          ELSE <<>>)
         \o category_lines(cats, c + 1)

_generate_done_section(agg) ==
    IF Len(agg.done) = 0
    THEN LineJoin(<<"2. DONE", "- No completed tasks this week", "">>)
    ELSE LineJoin(<<"2. DONE">>
                  \o category_lines(_categorize_tasks(agg.done), 1) \o <<"">>)

_generate_in_progress_section(agg) ==
    IF Len(agg.in_progress) = 0
    THEN LineJoin(<<"3. IN PROGRESS", "- No tasks currently in progress", "">>)
    ELSE LineJoin(<<"3. IN PROGRESS">> \o task_lines(agg.in_progress, 1) \o <<"">>)

_generate_next_plan_section(agg) ==
    IF Len(agg.planned) = 0
    THEN LineJoin(<<"4. NEXT PLAN", "- Planning to continue with assigned tasks",
                    "">>)
    ELSE LineJoin(<<"4. NEXT PLAN">> \o task_lines(agg.planned, 1) \o <<"">>)

\* variant: the section is left out when there is no blocker
_generate_blockers_section_optional(agg) ==
    IF Len(agg.blockers) = 0 THEN ""
    ELSE LineJoin(<<"5. QUESTIONS/BLOCKERS">>
                  \o [i \in 1..Len(agg.blockers) |-> "- " \o agg.blockers[i]]
                  \o <<"">>)

_generate_blockers_section(agg) ==
    LineJoin(<<"5. QUESTIONS/BLOCKERS">>
             \o (IF Len(agg.blockers) = 0 THEN <<"- No blockers this week">>
                 ELSE [i \in 1..Len(agg.blockers) |-> "- " \o agg.blockers[i]])
             \o <<"">>)

_generate_footer(gen) ==
    LineJoin(<<"Please let us know if you have any questions or concerns.", "",
               "Thanks and Best regards,", gen.sender_name>>)

_generate_empty_report(now) ==
    "No status updates found for this week.\n\nPlease ensure team members have posted their daily status updates in the Slack channel.\n\nGenerated on: "
        \o strftime_generated(now) \o "\n"

NotEmptyString(part) == part # ""

\* the report for one result agg of the aggregator
render(gen, agg, additional_notes, now) ==
    LineJoin(SelectSeq(<<_generate_header(gen, agg, now),
                         _generate_notes_section(agg, additional_notes),
                         _generate_done_section(agg),
                         _generate_in_progress_section(agg),
                         _generate_next_plan_section(agg),
                         _generate_blockers_section(agg),
                         _generate_footer(gen)>>,
                       NotEmptyString))

\* the methods render runs, in call order
render_calls(agg) ==
    <<"_generate_header", "_generate_notes_section", "_generate_done_section">>
    \o (IF Len(agg.done) = 0 THEN <<>> ELSE <<"_categorize_tasks">>)
    \o <<"_generate_in_progress_section", "_generate_next_plan_section",
         "_generate_blockers_section", "_generate_footer">>

\* variant: no early return for an empty input
generate_always(gen, sts, additional_notes, now) ==
    {[report |-> render(gen, agg, additional_notes, now),
      calls |-> <<"aggregate">> \o render_calls(agg)] : agg \in aggregate(sts)}

\* the <<report, calls>> outcomes of generate(statuses, notes)
generate(gen, sts, additional_notes, now) ==
    IF Len(sts) = 0
    THEN {[report |-> _generate_empty_report(now),
           calls |-> <<"_generate_empty_report">>]}
    ELSE {[report |-> render(gen, agg, additional_notes, now),
           calls |-> <<"aggregate">> \o render_calls(agg)] :
             agg \in aggregate(sts)}

----------------------------------------------------------------------------
(* Inputs of the parser *)

MaxLines == 2

SeqsUpTo(S, n) == UNION {[1..k -> S] : k \in 0..n}

\* a line of exactly MinLength characters with no keyword, ticket or marker
Filler ==
    "Spent the morning pairing with the platform team and reading the incident notes for the last release"

Lines ==
    {"Done: Fixed login bug V2-101 @Alice",
     "In Progress: Working on V2-102 @Bob",
     "Done:",
     "In Progress:",
     "Planned:",
     "- Fixed cache JIRA-12 - @Bob",
     "- @Alice Smith",
     "* Review PR #42 today",
     "2. Deploy api",
     "Fixed login bug V2-101 @Alice",
     "ok",
     Filler}

Texts == {Join(ls, "\n") : ls \in SeqsUpTo(Lines, MaxLines)}

UserNames == {"Dana"}

Messages ==
    {[user_name |-> u, text |-> t, timestamp |-> 1] : u \in UserNames, t \in Texts}

----------------------------------------------------------------------------
(* The parser applied to one message *)

InitOther ==
    /\ statuses = <<>>
    /\ aggregated = None
    /\ done_tasks = <<>>
    /\ categorized = <<>>
    /\ generator = None
    /\ notes = None
    /\ report = ""
    /\ calls = <<>>
    /\ args = None
    /\ response = None

InitParser ==
    /\ messages = <<>>
    /\ message \in Messages
    /\ content = ""
    /\ op = "init"
    /\ accepted = FALSE
    /\ sections = <<>>
    /\ tasks = <<>>
    /\ status = None
    /\ InitOther

IsStatusUpdate ==
    /\ op = "init"
    /\ op' = "is_status_update"
    /\ accepted' = is_status_update(message)
    /\ UNCHANGED <<messages, message, content, sections, tasks, status>>
    /\ UNCHANGED <<aggVars, catVars, reportVars>>

SplitIntoSections ==
    /\ op = "init"
    /\ op' = "_split_into_sections"
    /\ sections' = _split_into_sections(message.text)
    /\ UNCHANGED <<messages, message, content, accepted, tasks, status>>
    /\ UNCHANGED <<aggVars, catVars, reportVars>>

\* _parse_tasks on the whole text or on the content of one of its sections
ParseTasks ==
    /\ op = "init"
    /\ \E c \in {message.text} \cup
                {sec[2] : sec \in SeqToSet(_split_into_sections(message.text))} :
          /\ content' = c
          /\ tasks' = _parse_tasks(c, message.user_name)
    /\ op' = "_parse_tasks"
    /\ UNCHANGED <<messages, message, accepted, sections, status>>
    /\ UNCHANGED <<aggVars, catVars, reportVars>>

ParseMessage ==
    /\ op = "init"
    /\ op' = "parse_message"
    /\ status' = parse_message(message)
    /\ UNCHANGED <<messages, message, content, accepted, sections, tasks>>
    /\ UNCHANGED <<aggVars, catVars, reportVars>>

NextParser == IsStatusUpdate \/ SplitIntoSections \/ ParseTasks \/ ParseMessage

SpecParser == InitParser /\ [][NextParser]_vars

----------------------------------------------------------------------------
(* The parser applied to one message of list lines *)

\* lines led by numbering, by a bullet (one with a mention that a lower-case
\* word follows), by a digit with no dot, and by neither
ListLines ==
    {"1. alpha",
     "- @Alice fixed the bug",
     "2. beta",
     "1. Write tests",
     "2. Deploy api",
     "- Write tests",
     "  * Deploy api",
     "5 apples a day",
     "plain words here"}

InitList ==
    /\ messages = <<>>
    /\ message \in {[user_name |-> u, text |-> Join(ls, "\n"), timestamp |-> 1] :
                       u \in UserNames, ls \in SeqsUpTo(ListLines, MaxLines)}
    /\ content = ""
    /\ op = "init"
    /\ accepted = FALSE
    /\ sections = <<>>
    /\ tasks = <<>>
    /\ status = None
    /\ InitOther

SpecList == InitList /\ [][NextParser]_vars

----------------------------------------------------------------------------
(* _split_into_sections applied to one text of header and content lines *)

MaxSplitLines == 3

\* header lines of done and in_progress (one of them matched by patterns of
\* both), a bullet with a header word after its start, a padded line and a
\* blank line
SplitterLines ==
    {"Done:",
     "today i did reviews",
     "Today:",
     "- done with X",
     "  padded item  ",
     ""}

InitSplit ==
    /\ messages = <<>>
    /\ message \in {[user_name |-> u, text |-> Join(ls, "\n"), timestamp |-> 1] :
                       u \in UserNames, ls \in SeqsUpTo(SplitterLines, MaxSplitLines)}
    /\ content = ""
    /\ op = "init"
    /\ accepted = FALSE
    /\ sections = <<>>
    /\ tasks = <<>>
    /\ status = None
    /\ InitOther

SpecSplit == InitSplit /\ [][SplitIntoSections]_vars

----------------------------------------------------------------------------
(* Inputs of the aggregator *)

MaxStatuses == 2
MaxTasks == 1

Task(description, assignee, st, ticket_id, pr_number) ==
    [description |-> description, assignee |-> assignee, status |-> st,
     ticket_id |-> ticket_id, pr_number |-> pr_number]

\* <<list, task>> entries a status is filled from: two items of one ticket,
\* two ticket-less items that agree on their first 50 characters up to case,
\* an in-progress item and a planned item
TaskPool ==
    {<<"done", Task("Fix login redirect", "Carol", "done", Some("V2-200"), None)>>,
     <<"done", Task("Fix login redirect on mobile", "Carol", "done",
                    Some("V2-200"), Some("670"))>>,
     <<"done", Task("Implement new dashboard widget for the weekly velocity chart",
                    "Alice", "done", None, None)>>,
     <<"done", Task("implement NEW dashboard widget for the weekly velocity chart and its legend",
                    "Alice", "done", None, None)>>,
     <<"in_progress", Task("Fix login redirect", "Carol", "in_progress",
                           Some("V2-200"), None)>>,
     <<"planned", Task("Write README for installer", "Alice", "planned",
                       None, None)>>}

\* the tasks of entries[i..] that go to the given list, in order
RECURSIVE pick(_, _, _)
pick(entries, list, i) ==
    IF i > Len(entries) THEN <<>>
    ELSE (IF entries[i][1] = list THEN <<entries[i][2]>> ELSE <<>>)
             \o pick(entries, list, i + 1)

StatusOf(author, date, entries) ==
    [DailyStatus(author, date, "") EXCEPT
        !.done = pick(entries, "done", 1),
        !.in_progress = pick(entries, "in_progress", 1),
        !.planned = pick(entries, "planned", 1)]

StatusPool == {StatusOf("Dana", 1, es) : es \in SeqsUpTo(TaskPool, MaxTasks)}

----------------------------------------------------------------------------
(* The aggregator applied to one sequence of statuses *)

InitNoParser ==
    /\ messages = <<>>
    /\ message = [user_name |-> "", text |-> "", timestamp |-> 0]
    /\ content = ""
    /\ accepted = FALSE
    /\ sections = <<>>
    /\ tasks = <<>>
    /\ status = None

InitAgg ==
    /\ statuses \in SeqsUpTo(StatusPool, MaxStatuses)
    /\ op = "init"
    /\ aggregated = None
    /\ done_tasks = <<>>
    /\ categorized = <<>>
    /\ generator = None
    /\ notes = None
    /\ report = ""
    /\ calls = <<>>
    /\ args = None
    /\ response = None
    /\ InitNoParser

Aggregate ==
    /\ op = "init"
    /\ op' = "aggregate"
    /\ \E a \in aggregate(statuses) : aggregated' = Some(a)
    /\ UNCHANGED <<statuses, parserVars, catVars, reportVars>>

NextAgg == Aggregate

SpecAgg == InitAgg /\ [][NextAgg]_vars

----------------------------------------------------------------------------
(* The aggregator applied to statuses of several days and authors *)

MaxDated == 3

Days == 1..3

\* statuses of two authors over three days, empty or carrying one item
DatedPool ==
    {StatusOf(author, date, es) :
        author \in {"Dana", "Carol"}, date \in Days,
        es \in {<<>>,
                <<<<"done", Task("Fix login redirect", "Carol", "done",
                                 Some("V2-200"), None)>>>>}}

InitDated ==
    /\ statuses \in SeqsUpTo(DatedPool, MaxDated)
    /\ op = "init"
    /\ aggregated = None
    /\ done_tasks = <<>>
    /\ categorized = <<>>
    /\ generator = None
    /\ notes = None
    /\ report = ""
    /\ calls = <<>>
    /\ args = None
    /\ response = None
    /\ InitNoParser

SpecDated == InitDated /\ [][NextAgg]_vars

----------------------------------------------------------------------------
(* The aggregator applied to statuses of two items each *)

\* <<list, task>> entries: an item with a ticket, a ticket-less item of the
\* same description, the ticket under another assignee and the ticket in
\* another list
BucketEntries ==
    {<<"done", Task("Fix login redirect", "Carol", "done", Some("V2-200"), None)>>,
     <<"done", Task("Fix login redirect", "Carol", "done", None, None)>>,
     <<"done", Task("Review login redirect", "Alice", "done", Some("V2-200"), None)>>,
     <<"in_progress", Task("Fix login redirect", "Carol", "in_progress",
                           Some("V2-200"), None)>>}

BucketStatuses ==
    {StatusOf(author, 1, <<e1, e2>>) :
        author \in {"Dana", "Carol"}, e1 \in BucketEntries, e2 \in BucketEntries}

InitBuckets ==
    /\ statuses \in SeqsUpTo(BucketStatuses, MaxStatuses)
    /\ op = "init"
    /\ aggregated = None
    /\ done_tasks = <<>>
    /\ categorized = <<>>
    /\ generator = None
    /\ notes = None
    /\ report = ""
    /\ calls = <<>>
    /\ args = None
    /\ response = None
    /\ InitNoParser

SpecBuckets == InitBuckets /\ [][NextAgg]_vars

----------------------------------------------------------------------------
(* _categorize_tasks applied to one assignee -> tasks dict *)

MaxCatTasks == 1

\* <<description, ticket_id>> of the done items to categorize: one per
\* category, one that hits two categories, one that hits by its ticket only,
\* a bug fix with a V2 ticket and one that names a V1 ticket
CatPool ==
    {<<"Implement new dashboard widget", None>>,
     <<"Fix null pointer on checkout", None>>,
     <<"Fix null pointer on checkout", Some("V2-301")>>,
     <<"Fix crash reported in V1-12", None>>,
     <<"Fix export bug", None>>,
     <<"Refactor session cache", None>>,
     <<"Write README for installer", None>>,
     <<"Welcome lunch with Erin", None>>,
     <<"Team lunch", None>>,
     <<"Meeting notes", Some("V2-300")>>}

TasksFor(assignee, picks) ==
    [i \in 1..Len(picks) |->
        Task(picks[i][1], assignee, "done", picks[i][2], None)]

\* the items of the second assignee
SecondPool ==
    {<<"Implement new dashboard widget", None>>,
     <<"Fix null pointer on checkout", None>>,
     <<"Fix export bug", None>>,
     <<"Meeting notes", Some("V2-300")>>}

\* dicts with no key, with Alice, or with Alice then Carol
DoneDicts ==
    {<<>>}
    \cup {<< <<"Alice", TasksFor("Alice", pa)>> >> :
              pa \in SeqsUpTo(CatPool, MaxCatTasks)}
    \cup {<< <<"Alice", TasksFor("Alice", pa)>>, <<"Carol", TasksFor("Carol", pc)>> >> :
              pa \in SeqsUpTo(CatPool, MaxCatTasks),
              pc \in SeqsUpTo(SecondPool, MaxCatTasks)}

InitCat ==
    /\ done_tasks \in DoneDicts
    /\ op = "init"
    /\ categorized = <<>>
    /\ statuses = <<>>
    /\ aggregated = None
    /\ generator = None
    /\ notes = None
    /\ report = ""
    /\ calls = <<>>
    /\ args = None
    /\ response = None
    /\ InitNoParser

CategorizeTasks ==
    /\ op = "init"
    /\ op' = "_categorize_tasks"
    /\ categorized' = _categorize_tasks(done_tasks)
    /\ UNCHANGED <<done_tasks, parserVars, aggVars, reportVars>>

NextCat == CategorizeTasks

SpecCat == InitCat /\ [][NextCat]_vars

----------------------------------------------------------------------------
(* generate applied to one sequence of statuses *)

MaxReportStatuses == 2

ReportStatusPool ==
    {[author |-> "Dana", date |-> 2, raw_text |-> "",
      done |-> <<Task("Fix login redirect", "Carol", "done", Some("V2-200"), None),
                 Task("Implement new dashboard widget", "Alice", "done", None, None)>>,
      in_progress |-> <<Task("Fix login redirect", "Carol", "done",
                             Some("V2-200"), None)>>,
      planned |-> <<>>,
      blockers |-> <<"Waiting for staging access">>,
      notes |-> <<>>],
     [author |-> "Eli", date |-> 4, raw_text |-> "",
      done |-> <<Task("Fix login redirect on mobile", "Carol", "done",
                      Some("V2-200"), Some("670"))>>,
      in_progress |-> <<>>,
      planned |-> <<Task("Write README for installer", "Alice", "done", None,
                         Some("12"))>>,
      blockers |-> <<>>,
      notes |-> <<"Release moved to Friday">>],
     [author |-> "Dana", date |-> 3, raw_text |-> "",
      done |-> <<Task("Team lunch", "Dana", "done", None, None),
                 Task("Review login redirect", "Alice", "done", Some("V2-200"),
                      None)>>,
      in_progress |-> <<>>, planned |-> <<>>, blockers |-> <<>>,
      notes |-> <<"Retro on Monday">>],
     DailyStatus("Eli", 1, "")}

\* ReportGenerator(...) as constructed by default and by the callers
Generators ==
    {[sender_name |-> "Report Generator", sender_email |-> "",
      recipients_to |-> <<>>, recipients_cc |-> <<>>],
     [sender_name |-> "Dana", sender_email |-> "dana@example.com",
      recipients_to |-> <<"team@example.com", "lead@example.com">>,
      recipients_cc |-> <<"cc@example.com">>]}

ExtraNotes ==
    {None, Some(<<>>), Some(<<"Demo on Thursday">>),
     Some(<<"Demo on Thursday", "Release moved to Friday">>)}

Clock == {5, 6}

InitReport ==
    /\ statuses \in SeqsUpTo(ReportStatusPool, MaxReportStatuses)
    /\ op = "init"
    /\ generator \in {Some(g) : g \in Generators}
    /\ notes = None
    /\ report = ""
    /\ calls = <<>>
    /\ args = None
    /\ response = None
    /\ aggregated = None
    /\ done_tasks = <<>>
    /\ categorized = <<>>
    /\ InitNoParser

Generate ==
    /\ op = "init"
    /\ op' = "generate"
    /\ \E n \in ExtraNotes, now \in Clock :
          \E out \in generate(Val(generator), statuses, n, now) :
              /\ notes' = n
              /\ report' = out.report
              /\ calls' = out.calls
    /\ UNCHANGED <<statuses, aggregated, generator, args, response, parserVars,
                   catVars>>

NextReport == Generate

SpecReport == InitReport /\ [][NextReport]_vars

----------------------------------------------------------------------------
(* parse_messages, then generate, as the entry points chain them *)

MaxMessages == 2

\* the status messages of the week's threads: accepted with sections, accepted
\* with no header, accepted with a section of blanks only, not accepted, and
\* accepted with an item that goes on over a second line
ThreadMessages ==
    {[user_name |-> "Dana", timestamp |-> 2,
      text |-> "Done:\n- Fixed cache JIRA-12 PR #42 - @Bob"],
     [user_name |-> "Eli", timestamp |-> 3,
      text |-> "In Progress:\n* Review docs today\nBlocked:\n- Waiting for staging access"],
     [user_name |-> "Carol", timestamp |-> 2, text |-> "- Fixed cache JIRA-12"],
     [user_name |-> "Dana", timestamp |-> 4,
      text |-> "Done:\n   \nIn Progress:\n- Fixed the login flow\n  and the logout flow JIRA-5"],
     [user_name |-> "Carol", timestamp |-> 5, text |-> ""]}

InitRun ==
    /\ messages \in SeqsUpTo(ThreadMessages, MaxMessages)
    /\ message = [user_name |-> "", text |-> "", timestamp |-> 0]
    /\ content = ""
    /\ op = "init"
    /\ accepted = FALSE
    /\ sections = <<>>
    /\ tasks = <<>>
    /\ status = None
    /\ statuses = <<>>
    /\ aggregated = None
    /\ done_tasks = <<>>
    /\ categorized = <<>>
    /\ generator \in {Some(g) : g \in Generators}
    /\ notes = None
    /\ report = ""
    /\ calls = <<>>
    /\ args = None
    /\ response = None

\* statuses = parser.parse_messages(status_messages)
ParseMessages ==
    /\ op = "init"
    /\ Len(messages) > 0
    /\ op' = "parse_messages"
    /\ statuses' = parse_messages(messages)
    /\ UNCHANGED <<aggregated, parserVars, catVars, reportVars>>

\* report = generator.generate(statuses, list(notes))
GenerateReport ==
    /\ op = "parse_messages"
    /\ op' = "generate"
    /\ \E n \in ExtraNotes \ {None}, now \in Clock :
          \E out \in generate(Val(generator), statuses, n, now) :
              /\ notes' = n
              /\ report' = out.report
              /\ calls' = out.calls
    /\ UNCHANGED <<statuses, aggregated, generator, args, response, parserVars,
                   catVars>>

NextRun == ParseMessages \/ GenerateReport

SpecRun == InitRun /\ [][NextRun]_vars

----------------------------------------------------------------------------
(* generate called twice on one ReportGenerator *)

\* variant: the list is the notes list of the first status
notes_owner_status == "status"

\* the object whose 'notes' list _generate_notes_section binds to notes and
\* extends: the dict aggregate returned, whose list _deduplicate_tasks made
notes_owner == "aggregated"

\* the caller's DailyStatus objects after generate got the first k of them
statuses_after(sts, k, additional_notes) ==
    IF /\ notes_owner = "status"
       /\ k > 0
       /\ ~IsNone(additional_notes)
       /\ Len(Val(additional_notes)) > 0
    THEN [sts EXCEPT ![1].notes = @ \o Val(additional_notes)]
    ELSE sts

\* the statuses that carry notes
NotedStatuses == {st \in ReportStatusPool : st.notes # <<>>}

\* the caller holds statuses and a list of extra notes (or none)
InitCalls ==
    /\ statuses \in SeqsUpTo(NotedStatuses, MaxReportStatuses)
    /\ op = "init"
    /\ generator \in {Some(g) : g \in Generators}
    /\ notes \in {None, Some(<<"Demo on Thursday">>)}
    /\ report = ""
    /\ calls = <<>>
    /\ args = None
    /\ response = None
    /\ aggregated = None
    /\ done_tasks = <<>>
    /\ categorized = <<>>
    /\ InitNoParser

\* generator.generate(statuses[:k], notes) or generator.generate(statuses[:k])
Call ==
    /\ op \in {"init", "generate"}
    /\ op' = IF op = "init" THEN "generate" ELSE "generate_again"
    /\ \E k \in 0..Len(statuses), n \in {None, notes}, now \in Clock :
          \E out \in generate(Val(generator), SubSeq(statuses, 1, k), n, now) :
              /\ args' = Some([statuses |-> SubSeq(statuses, 1, k), notes |-> n])
              /\ report' = out.report
              /\ calls' = out.calls
              /\ statuses' = statuses_after(statuses, k, n)
    /\ UNCHANGED <<generator, notes, aggregated, response, parserVars, catVars>>

NextCalls == Call

SpecCalls == InitCalls /\ [][NextCalls]_vars

----------------------------------------------------------------------------
(* The entry points: the /api/generate handler and the generate command *)

\* all_updates.sort(key=lambda m: m.timestamp)
RECURSIVE sorted_by_timestamp(_)
sorted_by_timestamp(ms) ==
    IF ms = <<>> THEN <<>>
    ELSE LET rest == sorted_by_timestamp(Tail(ms))
             k == Cardinality({i \in 1..Len(rest) :
                                  rest[i].timestamp < Head(ms).timestamp})
         IN  SubSeq(rest, 1, k) \o <<Head(ms)>> \o SubSeq(rest, k + 1, Len(rest))

\* SlackClient.get_weekly_status_updates with the week's threads found: the
\* replies of all threads by timestamp, the threads, and the diagnostics
get_weekly_status_updates(daily_reports) ==
    LET RECURSIVE replies(_)
        replies(i) == IF i > Len(daily_reports) THEN <<>>
                      ELSE daily_reports[i].replies \o replies(i + 1)
        all_updates == sorted_by_timestamp(replies(1))
    IN  <<all_updates, daily_reports,
          [used_fallback |-> FALSE, threads_found |-> Len(daily_reports),
           replies_found |-> Len(all_updates)]>>

\* a, b = value: the values of the two names, or None when the assignment
\* raises ValueError because value does not hold two
unpack_pair(value) == IF Len(value) = 2 THEN Some(value) ELSE None

\* the week's thread with its replies; the request
InitEntry ==
    /\ messages \in SeqsUpTo(ThreadMessages, MaxMessages)
    /\ message = [user_name |-> "", text |-> "", timestamp |-> 0]
    /\ content = ""
    /\ op = "init"
    /\ accepted = FALSE
    /\ sections = <<>>
    /\ tasks = <<>>
    /\ status = None
    /\ statuses = <<>>
    /\ aggregated = None
    /\ done_tasks = <<>>
    /\ categorized = <<>>
    /\ generator \in {Some(g) : g \in Generators}
    /\ notes \in ExtraNotes
    /\ report = ""
    /\ calls = <<>>
    /\ args = None
    /\ response = None

\* POST /api/generate: any exception becomes a response with success=False
ApiGenerate ==
    /\ op = "init"
    /\ op' = "api_generate"
    /\ LET fetched == get_weekly_status_updates(<<[date |-> 1, replies |-> messages]>>)
           pair == unpack_pair(fetched)
       IN  IF IsNone(pair)
           THEN /\ response' = Some([success |-> FALSE, report |-> None,
                       error |-> Some("too many values to unpack (expected 2)")])
                /\ UNCHANGED <<statuses, report, calls>>
           ELSE IF Val(pair)[1] = <<>>
           THEN /\ response' = Some([success |-> FALSE, report |-> None,
                       error |-> Some("No status updates found in daily report threads for this week.")])
                /\ UNCHANGED <<statuses, report, calls>>
           ELSE \E enhanced \in {None, Some("Enhanced report")}, now \in Clock :
                   \E out \in generate(Val(generator),
                                       parse_messages(Val(pair)[1]), notes, now) :
                       /\ statuses' = parse_messages(Val(pair)[1])
                       /\ report' = IF IsNone(enhanced) THEN out.report
                                    ELSE Val(enhanced)
                       /\ calls' = IF IsNone(enhanced) THEN out.calls ELSE <<>>
                       /\ response' = Some([success |-> TRUE,
                                            report |-> Some(report'),
                                            error |-> None])
    /\ UNCHANGED <<messages, message, content, accepted, sections, tasks, status,
                   aggregated, generator, notes, args, catVars>>

\* the generate command: an exception ends the process with its traceback
CliGenerate ==
    /\ op = "init"
    /\ op' = "cli_generate"
    /\ LET fetched == get_weekly_status_updates(<<[date |-> 1, replies |-> messages]>>)
           pair == unpack_pair(fetched)
       IN  IF IsNone(pair)
           THEN /\ response' = Some([success |-> FALSE, report |-> None,
                       error |-> Some("ValueError: too many values to unpack (expected 2)")])
                /\ UNCHANGED <<statuses, report, calls>>
           ELSE IF Val(pair)[1] = <<>>
           THEN /\ response' = Some([success |-> TRUE, report |-> None,
                                     error |-> None])
                /\ UNCHANGED <<statuses, report, calls>>
           ELSE \E enhanced \in {None, Some("Enhanced report")}, now \in Clock :
                   \E out \in generate(Val(generator),
                                       parse_messages(Val(pair)[1]),
                                       IF IsNone(notes) THEN Some(<<>>) ELSE notes,
                                       now) :
                       /\ statuses' = parse_messages(Val(pair)[1])
                       /\ report' = IF IsNone(enhanced) THEN out.report
                                    ELSE Val(enhanced)
                       /\ calls' = IF IsNone(enhanced) THEN out.calls ELSE <<>>
                       /\ response' = Some([success |-> TRUE,
                                            report |-> Some(report'),
                                            error |-> None])
    /\ UNCHANGED <<messages, message, content, accepted, sections, tasks, status,
                   aggregated, generator, notes, args, catVars>>

NextEntry == ApiGenerate \/ CliGenerate

SpecEntry == InitEntry /\ [][NextEntry]_vars

----------------------------------------------------------------------------
(* Claims about the parser, checked under SpecParser *)

\* the signals of the classifier, stated from the text alone
KeywordSignal(text) ==
    \E i, j \in 1..Len(section_keywords) :
        /\ i # j
        /\ Contains(Lower(text), section_keywords[i])
        /\ Contains(Lower(text), section_keywords[j])

TicketSignal(text) ==
    \E a \in 1..Len(text) :
        Ch(text, a) \in Upper /\ Ch(text, a + 1) = "-" /\ Ch(text, a + 2) \in Digits

SignalCount(text) ==
    Bit(KeywordSignal(text)) + Bit(has_lists(text)) + Bit(TicketSignal(text))
        + Bit(Len(text) > 100)

\* C1: is_status_update returns true exactly when at least 2 of the four
\* signals (keywords, list structure, ticket id, length over 100) hold, each
\* counted once; with 0 or 1 signals it returns false.
C1_ClassifierScore ==
    op = "is_status_update" => (accepted <=> SignalCount(message.text) >= 2)

\* C1 witness: a message with exactly two signals was accepted
C1_Witness ==
    op = "is_status_update" /\ accepted /\ SignalCount(message.text) = 2

ExampleText ==
    "Done: Fixed login bug V2-101 @Alice\nIn Progress: Working on V2-102 @Bob"

\* C2: for the text whose two header lines carry their content on the same
\* line, _split_into_sections returns one entry per header holding the text
\* that follows the header on its line.
C2_SameLineContent ==
    (op = "_split_into_sections" /\ message.text = ExampleText)
        => sections = << <<"done", "Fixed login bug V2-101 @Alice">>,
                         <<"in_progress", "Working on V2-102 @Bob">> >>

\* C3: _parse_tasks on 'Fixed login bug V2-101 @Alice' yields exactly one
\* item with ticket_id 'V2-101', assignee 'Alice' and description
\* 'Fixed login bug'.
C3_ExampleItem ==
    (op = "_parse_tasks" /\ content = "Fixed login bug V2-101 @Alice")
        => /\ Len(tasks) = 1
           /\ tasks[1].ticket_id = Some("V2-101")
           /\ tasks[1].assignee = "Alice"
           /\ tasks[1].description = "Fixed login bug"

HasStatus(items, st) == \A i \in 1..Len(items) : items[i].status = st

\* C4: in every DailyStatus returned by parse_message the items of done have
\* status DONE, those of in_progress IN_PROGRESS and those of planned PLANNED.
C4_ContainerStatus ==
    (op = "parse_message" /\ ~IsNone(status))
        => /\ HasStatus(Val(status).done, "done")
           /\ HasStatus(Val(status).in_progress, "in_progress")
           /\ HasStatus(Val(status).planned, "planned")

\* the fragments of a content that are long enough to be processed
Fragments(text) ==
    LET items == re_split(text)
    IN  {i \in 1..Len(items) : Len(Strip(items[i])) >= 5}

EmptyFragments(text) ==
    {i \in Fragments(text) :
        Strip(trailing_dash_sub(Strip(assignee_re_sub(Strip(re_split(text)[i]))))) = ""}

\* C5: every item returned by _parse_tasks has a non-empty description with
\* no leading or trailing whitespace, and a fragment whose cleaned description
\* is empty produces no item.
C5_DescriptionTrimmed ==
    op = "_parse_tasks"
        => /\ \A i \in 1..Len(tasks) :
                 /\ tasks[i].description # ""
                 /\ Ch(tasks[i].description, 1) \notin Whitespace
                 /\ Ch(tasks[i].description, Len(tasks[i].description))
                        \notin Whitespace
           /\ Len(tasks) = Cardinality(Fragments(content) \ EmptyFragments(content))

\* C5 witness: a content with one fragment that became an item and one whose
\* cleaned description was empty
C5_Witness ==
    /\ op = "_parse_tasks"
    /\ Len(tasks) > 0
    /\ EmptyFragments(content) # {}

----------------------------------------------------------------------------
(* Claims about the aggregator, checked under SpecAgg *)

\* the assignee -> items dict of a category
BucketOf(agg, category) ==
    CASE category = "done" -> agg.done
      [] category = "in_progress" -> agg.in_progress
      [] category = "planned" -> agg.planned

NoDuplicates(items) ==
    \A i, j \in 1..Len(items) :
        i < j =>
            /\ ~(/\ ~IsNone(items[i].ticket_id)
                 /\ items[i].ticket_id = items[j].ticket_id)
            /\ ~(/\ IsNone(items[i].ticket_id)
                 /\ IsNone(items[j].ticket_id)
                 /\ Prefix(Strip(Lower(items[i].description)), 50)
                        = Prefix(Strip(Lower(items[j].description)), 50))

\* C6: after aggregate, no (category, assignee) bucket holds two items with
\* the same ticket_id, nor two ticket-less items whose lower-cased, trimmed,
\* first-50-character description prefixes are equal.
C6_BucketsUnique ==
    op = "aggregate"
        => \A c \in 1..Len(Categories) :
              LET bucket == BucketOf(Val(aggregated), Categories[c])
              IN  \A k \in 1..Len(bucket) : NoDuplicates(bucket[k][2])

CarolTicketItems(st) ==
    {i \in 1..Len(st.done) :
        st.done[i].assignee = "Carol" /\ st.done[i].ticket_id = Some("V2-200")}

\* C6 witness: two statuses each carried a done item with ticket V2-200 for
\* Carol and done['Carol'] holds exactly one item
C6_Witness ==
    /\ op = "aggregate"
    /\ Len(statuses) = 2
    /\ CarolTicketItems(statuses[1]) # {}
    /\ CarolTicketItems(statuses[2]) # {}
    /\ Len(DictGet(Val(aggregated).done, "Carol")) = 1

----------------------------------------------------------------------------
(* Claims about the categorizer, checked under SpecCat *)

Count(items, t) == Cardinality({i \in 1..Len(items) : items[i] = t})

\* how often task t stands under assignee a in a dict / in a category's dict
CountIn(d, a, t) == IF DictHas(d, a) THEN Count(DictGet(d, a), t) ELSE 0

AllAssignees(cats) ==
    UNION {SeqToSet(DictKeys(cats[c][2])) : c \in 1..Len(cats)}

InputTasks(d) == UNION {SeqToSet(d[k][2]) : k \in 1..Len(d)}

AllTasks(cats) == UNION {InputTasks(cats[c][2]) : c \in 1..Len(cats)}

\* C8: every item of the input stands exactly once in the output, under one of
\* the six labels and under its assignee; nothing is added or lost; no label
\* and no assignee inside a label is present with an empty item sequence.
C8_TotalExclusive ==
    op = "_categorize_tasks"
        => /\ \A c \in 1..Len(categorized) :
                 /\ categorized[c][1] \in SeqToSet(CategoryLabels)
                 /\ \A c2 \in 1..Len(categorized) :
                        categorized[c2][1] = categorized[c][1] => c2 = c
                 /\ Len(categorized[c][2]) > 0
                 /\ \A k \in 1..Len(categorized[c][2]) :
                        Len(categorized[c][2][k][2]) > 0
           /\ \A a \in SeqToSet(DictKeys(done_tasks)) \cup AllAssignees(categorized),
                 t \in InputTasks(done_tasks) \cup AllTasks(categorized) :
                 /\ Cardinality({c \in 1..Len(categorized) :
                        CountIn(categorized[c][2], a, t) > 0})
                        = (IF CountIn(done_tasks, a, t) > 0 THEN 1 ELSE 0)
                 /\ \A c \in 1..Len(categorized) :
                        CountIn(categorized[c][2], a, t) > 0
                            => CountIn(categorized[c][2], a, t)
                                   = CountIn(done_tasks, a, t)

\* C8 witness: an item that hits the keywords of two categories was placed,
\* and another assignee's list was empty
C8_Witness ==
    /\ op = "_categorize_tasks"
    /\ \E t \in InputTasks(done_tasks) : t.description = "Fix export bug"
    /\ \E k \in 1..Len(done_tasks) : Len(done_tasks[k][2]) = 0
    /\ Len(categorized) = 1

\* the keywords of category c hit the task's description or ticket id
Hits(t, c) ==
    \E k \in 1..Len(category_keywords[c][2]) :
        \/ Contains(Lower(t.description), category_keywords[c][2][k])
        \/ (~IsNone(t.ticket_id)
              /\ Contains(Lower(Val(t.ticket_id)), category_keywords[c][2][k]))

ExpectedLabel(t) ==
    IF \E c \in 1..5 : Hits(t, c)
    THEN CategoryLabels[Min({c \in 1..5 : Hits(t, c)})]
    ELSE "Other"

\* C9: each item stands under the first category, in the order Feature
\* Development, Bug Fixes, Code & Infrastructure, Documentation, New Team
\* Member Onboarding, whose keywords hit its description or ticket id, and
\* under Other when none hits; 'Implement new dashboard widget' goes to Feature
\* Development and 'Fix null pointer on checkout' to Bug Fixes.
C9_FirstCategoryWins ==
    op = "_categorize_tasks"
        => \A c \in 1..Len(categorized) :
              \A k \in 1..Len(categorized[c][2]) :
                 \A i \in 1..Len(categorized[c][2][k][2]) :
                    LET t == categorized[c][2][k][2][i]
                    IN  /\ categorized[c][1] = ExpectedLabel(t)
                        /\ (t.description = "Implement new dashboard widget"
                              /\ IsNone(t.ticket_id))
                               => categorized[c][1] = "Feature Development"
                        /\ (t.description = "Fix null pointer on checkout"
                              /\ IsNone(t.ticket_id))
                               => categorized[c][1] = "Bug Fixes"

\* C9 witness: the two example items were categorized, one per label
C9_Witness ==
    /\ op = "_categorize_tasks"
    /\ \E c \in 1..Len(categorized) :
          /\ categorized[c][1] = "Feature Development"
          /\ \E t \in AllTasks(<<categorized[c]>>) :
                t.description = "Implement new dashboard widget"
    /\ \E c \in 1..Len(categorized) :
          /\ categorized[c][1] = "Bug Fixes"
          /\ \E t \in AllTasks(<<categorized[c]>>) :
                t.description = "Fix null pointer on checkout"

----------------------------------------------------------------------------
(* Claims about generate, checked under SpecReport *)

SectionHeaders ==
    {"1. NOTES", "2. DONE", "3. IN PROGRESS", "4. NEXT PLAN",
     "5. QUESTIONS/BLOCKERS"}

\* C10: generate on an empty status sequence returns the empty-state message:
\* it holds 'No status updates found' and a generation timestamp, none of the
\* section headers, and the aggregator, the categorizer and the section
\* renderers are not run, whatever extra notes are passed.
C10_EmptyInput ==
    (op = "generate" /\ Len(statuses) = 0)
        => /\ Contains(report, "No status updates found")
           /\ \E now \in Clock :
                 Contains(report, "Generated on: November 0" \o DayDigits[now]
                                      \o ", 2026 at ")
           /\ \A h \in SectionHeaders : ~Contains(report, h)
           /\ \A i \in 1..Len(calls) :
                 calls[i] \notin {"aggregate", "_categorize_tasks", "_generate_header",
                                  "_generate_notes_section", "_generate_done_section",
                                  "_generate_in_progress_section",
                                  "_generate_next_plan_section",
                                  "_generate_blockers_section", "_generate_footer"}

\* C10 witness: generate returned for an empty input that came with extra notes
C10_Witness ==
    /\ op = "generate"
    /\ Len(statuses) = 0
    /\ notes = Some(<<"Demo on Thursday">>)
    /\ report # ""

----------------------------------------------------------------------------
(* Claims about the command line run, checked under SpecRun *)

ItemsOf(st) == SeqToSet(st.done) \cup SeqToSet(st.in_progress) \cup SeqToSet(st.planned)

\* an optional field is absent or a non-empty piece of the text
AbsentOrFrom(field, text) ==
    IsNone(field) \/ (Len(Val(field)) > 0 /\ Contains(text, Val(field)))

\* the list parse_message stores for a section name
ListOf(st, name) ==
    CASE name = "done" -> st.done
      [] name = "in_progress" -> st.in_progress
      [] name = "planned" -> st.planned
      [] name = "blockers" -> st.blockers

BlankSections(text) ==
    {sec \in SeqToSet(_split_into_sections(text)) : Strip(sec[2]) = ""}

\* C11: parse_messages and generate end with a result for every message text:
\* a DailyStatus is produced only for an accepted message, its items carry
\* ticket_id / pr_number either absent or taken from the text (absent when the
\* text holds none), a section whose content is empty or blank yields no item,
\* and generate returns a text.
C11_NoErrorState ==
    /\ op \in {"parse_messages", "generate"} =>
          \A i \in 1..Len(statuses) :
              LET st == statuses[i]
              IN  /\ SignalCount(st.raw_text) >= 2
                  /\ \A t \in ItemsOf(st) :
                        /\ AbsentOrFrom(t.ticket_id, st.raw_text)
                        /\ AbsentOrFrom(t.pr_number, st.raw_text)
                        /\ ~TicketSignal(st.raw_text) => IsNone(t.ticket_id)
                        /\ ~Contains(st.raw_text, "#") => IsNone(t.pr_number)
                  /\ \A sec \in BlankSections(st.raw_text) :
                        ListOf(st, sec[1]) = <<>>
                  /\ _parse_tasks("", st.author) = <<>>
    /\ op = "generate" => Len(report) > 0

\* C11 witness: a report was generated from a status with a blank section and
\* a status whose item has neither ticket nor PR
C11_Witness ==
    /\ op = "generate"
    /\ Len(report) > 0
    /\ \E i \in 1..Len(statuses) : BlankSections(statuses[i].raw_text) # {}
    /\ \E i \in 1..Len(statuses) :
          \E t \in ItemsOf(statuses[i]) : IsNone(t.ticket_id) /\ IsNone(t.pr_number)

AcceptedIndexes(msgs) == {i \in 1..Len(msgs) : SignalCount(msgs[i].text) >= 2}

\* C13: parse_messages returns one DailyStatus per accepted message and none
\* for the others, in input order, each with author, date and raw_text equal
\* to the user name, timestamp and text of its message; the output is never
\* longer than the input.
C13_OnePerAccepted ==
    op = "parse_messages" =>
        LET acc == AcceptedIndexes(messages)
        IN  /\ Len(statuses) = Cardinality(acc)
            /\ Len(statuses) <= Len(messages)
            /\ \A i \in acc :
                  LET k == Cardinality({j \in acc : j <= i})
                  IN  /\ statuses[k].author = messages[i].user_name
                      /\ statuses[k].date = messages[i].timestamp
                      /\ statuses[k].raw_text = messages[i].text

\* C13 witness: of two messages, the first was not accepted and the second was
C13_Witness ==
    /\ op = "parse_messages"
    /\ Len(messages) = 2
    /\ AcceptedIndexes(messages) = {2}
    /\ Len(statuses) = 1

----------------------------------------------------------------------------
(* Claims about the rendered report, checked under SpecReport *)

\* the section headers in report order
HeaderOrder ==
    <<"1. NOTES", "2. DONE", "3. IN PROGRESS", "4. NEXT PLAN",
      "5. QUESTIONS/BLOCKERS">>

\* the indexes of the lines equal to the given line
LinesEqual(ls, line) == {i \in 1..Len(ls) : ls[i] = line}

FooterLines(gen) ==
    <<"Please let us know if you have any questions or concerns.", "",
      "Thanks and Best regards,", gen.sender_name>>

\* C12: for a non-empty status sequence the report is the header, then the
\* five section headers '1. NOTES' .. '5. QUESTIONS/BLOCKERS', each exactly
\* once and in this order, each after a blank line, then the footer with the
\* sign-off and the sender name; none is left out when its content is empty.
C12_FixedBlocks ==
    (op = "generate" /\ Len(statuses) > 0) =>
        LET ls == SplitLines(report)
            at(h) == CHOOSE i \in LinesEqual(ls, HeaderOrder[h]) : TRUE
            n == Len(ls)
        IN  /\ \A h \in 1..5 : Cardinality(LinesEqual(ls, HeaderOrder[h])) = 1
            /\ \A h \in 1..4 : at(h) < at(h + 1)
            /\ \A h \in 1..5 : ls[at(h) - 1] = ""
            /\ StartsWith(ls[1], Val(generator).sender_name)
            /\ \E i \in 1..(at(1) - 1) : ls[i] = "Hi all,"
            /\ n >= at(5) + 6
            /\ SubSeq(ls, n - 3, n) = FooterLines(Val(generator))
            /\ ls[n - 4] = ""

\* C12 witness: a report for a status with no item, blocker or note, and no
\* extra notes
C12_Witness ==
    /\ op = "generate"
    /\ Len(statuses) = 1
    /\ ItemsOf(statuses[1]) = {}
    /\ statuses[1].blockers = <<>>
    /\ statuses[1].notes = <<>>
    /\ IsNone(notes)
    /\ Cardinality(LinesEqual(SplitLines(report), "5. QUESTIONS/BLOCKERS")) = 1

\* the items of the three buckets of an aggregator result
Survivors(agg) ==
    InputTasks(agg.done) \cup InputTasks(agg.in_progress) \cup InputTasks(agg.planned)

\* [ticket_id: ]description[ - PR #n] - @assignee
ExpectedLine(t) ==
    (IF IsNone(t.ticket_id) THEN "" ELSE Val(t.ticket_id) \o ": ")
        \o t.description
        \o (IF IsNone(t.pr_number) THEN "" ELSE " - PR #" \o Val(t.pr_number))
        \o " - @" \o t.assignee

\* C15: _format_task writes the ticket id followed by ': ' only when ticket_id
\* is present, then the description, then ' - PR #n' only when pr_number is
\* present, then ' - @assignee', in this order; an absent field leaves no
\* 'PR #' and no ':' before the description.
C15_TaskLine ==
    (op = "generate" /\ Len(statuses) > 0) =>
        \A agg \in aggregate(statuses) :
            \A t \in Survivors(agg) :
                /\ _format_task(t) = ExpectedLine(t)
                /\ _format_task(t) \in SeqToSet(SplitLines(report))
                /\ IsNone(t.pr_number) => ~Contains(_format_task(t), "PR #")
                /\ IsNone(t.ticket_id) => StartsWith(_format_task(t), t.description)

\* C15 witness: a report with the lines of an item with ticket and PR, an item
\* with a PR only and an item with neither
C15_Witness ==
    /\ op = "generate"
    /\ \A line \in {"V2-200: Fix login redirect on mobile - PR #670 - @Carol",
                     "Write README for installer - PR #12 - @Alice",
                     "Implement new dashboard widget - @Alice"} :
           line \in SeqToSet(SplitLines(report))

----------------------------------------------------------------------------
(* Claims about the report of a run, checked under SpecRun *)

Placeholder ==
    <<"- No special notes this week", "- No completed tasks this week",
      "- No tasks currently in progress",
      "- Planning to continue with assigned tasks">>

HeaderAt(ls, h) == CHOOSE i \in LinesEqual(ls, HeaderOrder[h]) : TRUE

\* the indexes of the lines between header h and the next header
SectionLines(ls, h) == (HeaderAt(ls, h) + 1)..(HeaderAt(ls, h + 1) - 1)

\* the category headings of the DONE section, as indexes of lines
Headings(ls) ==
    {i \in SectionLines(ls, 2) : ls[i] \in SeqToSet(CategoryLabels) /\ ls[i - 1] = ""}

\* the item's line stands once among the lines rng
OnOneLine(ls, rng, t) == Cardinality({i \in rng : ls[i] = _format_task(t)}) = 1

\* C14: for a non-empty status sequence every item that survives aggregation
\* is rendered on exactly one line of the section of its category: done items
\* in '2. DONE' under the heading of their category, with the headings in the
\* fixed category order, in_progress items in '3. IN PROGRESS', planned items in
\* '4. NEXT PLAN'; a section shows its placeholder line exactly when it has no
\* item.
C14_ItemLines ==
    (op = "generate" /\ Len(statuses) > 0) =>
        \A agg \in aggregate(statuses) :
            LET ls == SplitLines(report)
                items(h) == InputTasks(CASE h = 2 -> agg.done
                                         [] h = 3 -> agg.in_progress
                                         [] h = 4 -> agg.planned)
            IN  /\ \A h \in 2..4 :
                      /\ \A t \in items(h) : OnOneLine(ls, SectionLines(ls, h), t)
                      /\ (\E i \in SectionLines(ls, h) : ls[i] = Placeholder[h])
                             <=> items(h) = {}
                /\ \A t \in items(2) :
                      \E p \in Headings(ls) :
                          /\ ls[p] = ExpectedLabel(t)
                          /\ \E i \in SectionLines(ls, 2) :
                                /\ ls[i] = _format_task(t)
                                /\ p < i
                                /\ \A q \in Headings(ls) : ~(p < q /\ q < i)
                /\ \A p, q \in Headings(ls) :
                      p < q => \E a, b \in 1..Len(CategoryLabels) :
                                  a < b /\ ls[p] = CategoryLabels[a]
                                        /\ ls[q] = CategoryLabels[b]

----------------------------------------------------------------------------
(* Claims about list lines, checked under SpecList *)

\* index just after the bullet marker or the 'N.' numbering that leads the
\* line after optional blanks, 0 when the line is led by neither
MarkerEnd(line) ==
    LET q == SkipClass(line, 1, {" ", "\t"})
        r == SkipClass(line, q, Digits)
    IN  IF Ch(line, q) \in BulletChars THEN q + 1
        ELSE IF r > q /\ Ch(line, r) = "." THEN r + 1
        ELSE 0

ListLed(text) ==
    \E i \in 1..Len(SplitLines(text)) : MarkerEnd(SplitLines(text)[i]) # 0

\* C16: the list-structure signal of the classifier holds exactly when some
\* line of the text begins, after optional whitespace, with a bullet marker or
\* with 'N.' numbering; the text of the lines '1. alpha' and '2. beta' has it.
C16_ListSignal ==
    op = "is_status_update" =>
        /\ has_lists(message.text) <=> ListLed(message.text)
        /\ message.text = "1. alpha\n2. beta" => has_lists(message.text)

\* the text of a marker-led line after its marker
AfterMarker(line) == Strip(From(line, MarkerEnd(line)))

LongEnough(item) == Len(item) >= MinItemLen

\* C20: _parse_tasks splits the content at every bullet marker and every 'N.'
\* numbering that stands at the start of a line, the first line included, and
\* returns the items in order of appearance: for a content of marker-led lines
\* the descriptions are the lines without their markers, so '1. <task A>'
\* newline '2. <task B>' gives task A and task B.
C20_SplitAtMarkers ==
    (op = "_parse_tasks"
       /\ \A i \in 1..Len(SplitLines(content)) : MarkerEnd(SplitLines(content)[i]) # 0)
        => LET ls == SplitLines(content)
               expected == SelectSeq([i \in 1..Len(ls) |-> AfterMarker(ls[i])],
                                     LongEnough)
           IN  [i \in 1..Len(tasks) |-> tasks[i].description] = expected

----------------------------------------------------------------------------
(* Claims about the section splitter, checked under SpecSplit *)

\* the section a line is a header of: the first section, in the order of
\* SECTION_PATTERNS, with a pattern that matches at the start of the
\* lower-cased, trimmed line
HeaderOf(line) ==
    LET hits == {k \in 1..Len(SECTION_PATTERNS) :
                    \E a \in 1..Len(SECTION_PATTERNS[k][2]) :
                        StartsWith(Strip(Lower(line)), SECTION_PATTERNS[k][2][a])}
    IN  IF hits = {} THEN None ELSE Some(SECTION_PATTERNS[Min(hits)][1])

\* the section of each line of ls
HeaderMap(ls) == [i \in 1..Len(ls) |-> HeaderOf(ls[i])]

Headers(hd) == {h \in DOMAIN hd : ~IsNone(hd[h])}

HeadersOf(hd, name) == {h \in DOMAIN hd : hd[h] = Some(name)}

\* the run of non-header lines that follows the header at index h
RunAfter(ls, hd, h) ==
    LET e == CHOOSE e \in h..Len(ls) :
                 /\ \A j \in (h + 1)..e : IsNone(hd[j])
                 /\ (e = Len(ls) \/ ~IsNone(hd[e + 1]))
    IN  SubSeq(ls, h + 1, e)

\* C17: lines before the first header are in no content, and the non-header
\* lines after a header are collected unchanged and in order: every returned
\* content is the newline-join of one run of non-header lines that follows a
\* header of its section, and the last header of a section that has a run is
\* returned with that run.
C17_VerbatimRuns ==
    op = "_split_into_sections" =>
        LET ls == SplitLines(message.text)
            hd == HeaderMap(ls)
        IN  /\ \A k \in 1..Len(sections) :
                  \E h \in HeadersOf(hd, sections[k][1]) :
                      /\ Len(RunAfter(ls, hd, h)) > 0
                      /\ sections[k][2] = Join(RunAfter(ls, hd, h), "\n")
            /\ \A k, m \in 1..Len(sections) : sections[k][1] = sections[m][1] => k = m
            /\ \A h \in Headers(hd) :
                  (Len(RunAfter(ls, hd, h)) > 0 /\ h = Max(HeadersOf(hd, Val(hd[h]))))
                    => /\ DictHas(sections, Val(hd[h]))
                       /\ DictGet(sections, Val(hd[h])) = Join(RunAfter(ls, hd, h), "\n")

\* C17 witness: a line before the header was dropped and a padded line after
\* it was kept as it is
C17_Witness ==
    /\ op = "_split_into_sections"
    /\ message.text = "- done with X\nDone:\n  padded item  "
    /\ sections = << <<"done", "  padded item  ">> >>

\* C18: when a header of the same section occurs again later, the content
\* returned for that section is the run that follows the later header, also
\* when that run has no line.
C18_LaterHeaderOverwrites ==
    op = "_split_into_sections" =>
        LET ls == SplitLines(message.text)
            hd == HeaderMap(ls)
        IN  \A name \in SeqToSet(SectionNames) :
                Cardinality(HeadersOf(hd, name)) >= 2 =>
                    LET run == RunAfter(ls, hd, Max(HeadersOf(hd, name)))
                    IN  IF Len(run) = 0
                        THEN ~DictHas(sections, name) \/ DictGet(sections, name) = ""
                        ELSE /\ DictHas(sections, name)
                             /\ DictGet(sections, name) = Join(run, "\n")

\* C19: a line is a header of at most one section, the first in the order
\* done, in_progress, planned, blockers with a pattern that matches at the
\* start of its lower-cased, trimmed form: 'today i did ...' opens done, and a
\* bullet with a header word after its start is not a header.
C19_HeaderDetection ==
    op = "_split_into_sections" =>
        LET ls == SplitLines(message.text)
            hd == HeaderMap(ls)
        IN  /\ \A i \in 1..Len(ls) : detect_section(Strip(Lower(ls[i])), 1) = hd[i]
            /\ (Len(ls) >= 2 /\ Headers(hd) \subseteq {1}) =>
                  sections = IF 1 \in Headers(hd)
                             THEN << <<Val(hd[1]), Join(Tail(ls), "\n")>> >>
                             ELSE <<>>
            /\ \A i \in 1..Len(ls) :
                  /\ ls[i] = "today i did reviews" => hd[i] = Some("done")
                  /\ ls[i] = "Today:" => hd[i] = Some("in_progress")
                  /\ ls[i] = "- done with X" => hd[i] = None

\* C19 witness: 'today i did ...' opened done and the bullet that follows it,
\* with a header word after its start, was collected as content
C19_Witness ==
    /\ op = "_split_into_sections"
    /\ message.text = "today i did reviews\n- done with X"
    /\ sections = << <<"done", "- done with X">> >>

----------------------------------------------------------------------------
(* Claims about the fragments of a content, checked under SpecList *)

\* the cleaned text of fragment i of the content, "" when the fragment trims
\* to fewer than 5 characters
Processed(text, i) ==
    IF i \in Fragments(text)
    THEN Strip(trailing_dash_sub(Strip(assignee_re_sub(Strip(re_split(text)[i])))))
    ELSE ""

\* C21: _parse_tasks produces no item for a fragment that trims to fewer than
\* 5 characters and processes every fragment that trims to 5 or more, in
\* order; the number of items never exceeds the number of fragments of at
\* least 5 characters.
C21_ShortFragments ==
    op = "_parse_tasks" =>
        /\ Len(tasks) <= Cardinality(Fragments(content))
        /\ [i \in 1..Len(tasks) |-> tasks[i].description]
              = SelectSeq([i \in 1..Len(re_split(content)) |-> Processed(content, i)],
                          NotEmptyString)

\* C21 witness: of two fragments, the one of 8 characters became an item and
\* the one of 4 characters did not
C21_Witness ==
    /\ op = "_parse_tasks"
    /\ content = "1. alpha\n2. beta"
    /\ Len(tasks) = 1
    /\ Cardinality(Fragments(content)) = 1
    /\ Len(re_split(content)) = 2

\* index just after the capitalized word that starts at index i, 0 when none
\* starts there
CapWordEnd(s, i) == IF Ch(s, i) \in Upper THEN SkipClass(s, i, Letters) ELSE 0

\* the indexes of the '@' of the mentions: '@' followed by a capitalized word
Mentions(s) == {p \in 1..Len(s) : Ch(s, p) = "@" /\ CapWordEnd(s, p + 1) # 0}

\* the one or two capitalized words of the mention at index p
MentionName(s, p) ==
    LET e1 == CapWordEnd(s, p + 1)
        w == SkipClass(s, e1, Whitespace)
        e2 == IF w > e1 THEN CapWordEnd(s, w) ELSE 0
    IN  SubSeq(s, p + 1, (IF e2 # 0 THEN e2 ELSE e1) - 1)

\* the k-th of the fragments that become items
KeptFragment(text, k) ==
    LET kept == Fragments(text) \ EmptyFragments(text)
    IN  Strip(re_split(text)[CHOOSE i \in kept : Cardinality({j \in kept : j <= i}) = k])

\* C22: the assignee of an item is the name in its fragment's first '@'
\* mention, '@' followed by one or two capitalized words (a lower-case word
\* that follows is not part of the name), and is default_assignee exactly when
\* the fragment has no such mention.
C22_FirstMention ==
    op = "_parse_tasks" =>
        \A k \in 1..Len(tasks) :
            LET frag == KeptFragment(content, k)
            IN  tasks[k].assignee =
                    IF Mentions(frag) = {} THEN message.user_name
                    ELSE MentionName(frag, Min(Mentions(frag)))

----------------------------------------------------------------------------
(* Claims about the date range, checked under SpecDated *)

Dates(sts) == {sts[i].date : i \in 1..Len(sts)}

Reversed(sts) == [i \in 1..Len(sts) |-> sts[Len(sts) + 1 - i]]

\* C23: after aggregate on a non-empty sequence of statuses, date_range.start
\* is the least and date_range.end the greatest of the statuses' dates, so
\* start <= end and both are dates of input statuses; the statuses taken in
\* the opposite order give the same range; both are absent only for the
\* empty sequence.
C23_DateRange ==
    op = "aggregate" =>
        LET range == Val(aggregated).date_range
        IN  /\ IsNone(range.start) <=> statuses = <<>>
            /\ IsNone(range.end) <=> statuses = <<>>
            /\ statuses # <<>> =>
                  /\ Val(range.start) \in Dates(statuses)
                  /\ Val(range.end) \in Dates(statuses)
                  /\ \A d \in Dates(statuses) :
                        Val(range.start) <= d /\ d <= Val(range.end)
                  /\ Val(range.start) <= Val(range.end)
            /\ \A other \in aggregate(Reversed(statuses)) :
                  other.date_range = range

\* C23 witness: three statuses whose dates neither rise nor fall were
\* aggregated and the range runs from the second one's date to the third's
C23_Witness ==
    /\ op = "aggregate"
    /\ Len(statuses) = 3
    /\ statuses[1].date = 2
    /\ statuses[2].date = 1
    /\ statuses[3].date = 3
    /\ Val(aggregated).date_range = [start |-> Some(1), end |-> Some(3)]

----------------------------------------------------------------------------
(* Claims about the buckets, checked under SpecBuckets *)

\* the list of a status that a category is filled from
ListIn(st, category) ==
    CASE category = "done" -> st.done
      [] category = "in_progress" -> st.in_progress
      [] category = "planned" -> st.planned

\* the items of a category in encounter order: status by status, and within
\* a status in the order of its list
RECURSIVE Encountered(_, _, _)
Encountered(sts, category, i) ==
    IF i > Len(sts) THEN <<>>
    ELSE ListIn(sts[i], category) \o Encountered(sts, category, i + 1)

\* the key two items are duplicates under
DedupKey(task) ==
    IF Truthy(task.ticket_id) THEN <<"ticket", Val(task.ticket_id)>>
    ELSE <<"description", Prefix(Strip(Lower(task.description)), 50)>>

\* the items of items that no earlier item shares the key with
FirstOccurrences(items) ==
    LET IsFirst(i) == \A j \in 1..(i - 1) : DedupKey(items[j]) # DedupKey(items[i])
        Kept == {i \in 1..Len(items) : IsFirst(i)}
        RECURSIVE from(_)
        from(i) == IF i > Len(items) THEN <<>>
                   ELSE (IF i \in Kept THEN <<items[i]>> ELSE <<>>) \o from(i + 1)
    IN  from(1)

\* the encountered items of a category whose assignee is a
OwnItems(sts, category, a) ==
    LET Own(task) == task.assignee = a
    IN  SelectSeq(Encountered(sts, category, 1), Own)

AssigneesIn(sts, category) ==
    {Encountered(sts, category, 1)[i].assignee :
        i \in 1..Len(Encountered(sts, category, 1))}

\* C24: after aggregate, the keys of bucket[category] are the assignees of the
\* category's items, and bucket[category][a] is the sequence, in encounter
\* order, of the first occurrences under the dedup key of the category's items
\* whose assignee is a, whoever authored the status; so no item is under
\* another assignee or category and no bucket is empty.
C24_BucketContents ==
    op = "aggregate" =>
        \A c \in 1..Len(Categories) :
            LET bucket == BucketOf(Val(aggregated), Categories[c])
            IN  /\ SeqToSet(DictKeys(bucket)) = AssigneesIn(statuses, Categories[c])
                /\ Len(bucket) = Cardinality(AssigneesIn(statuses, Categories[c]))
                /\ \A k \in 1..Len(bucket) :
                      /\ bucket[k][2] # <<>>
                      /\ bucket[k][2] =
                            FirstOccurrences(OwnItems(statuses, Categories[c],
                                                      bucket[k][1]))

\* C24 witness: Carol's status carried a ticket-less and a ticketed item of
\* Carol, Dana's status repeated the ticketed one and added one of Alice, and
\* done['Carol'] holds the first two in that order, done['Alice'] the last
C24_Witness ==
    /\ op = "aggregate"
    /\ Len(statuses) = 2
    /\ statuses[1].author = "Carol"
    /\ statuses[2].author = "Dana"
    /\ Len(statuses[1].done) = 2
    /\ Len(statuses[2].done) = 2
    /\ IsNone(statuses[1].done[1].ticket_id)
    /\ DictHas(Val(aggregated).done, "Carol")
    /\ DictHas(Val(aggregated).done, "Alice")
    /\ DictGet(Val(aggregated).done, "Carol") = statuses[1].done
    /\ statuses[2].done[1] = statuses[1].done[2]
    /\ DictGet(Val(aggregated).done, "Alice") = <<statuses[2].done[2]>>

Ticketed(items) == {i \in 1..Len(items) : Truthy(items[i].ticket_id)}

Ticketless(items) == (1..Len(items)) \ Ticketed(items)

\* C25: in every bucket each ticket of the bucket's items is kept exactly
\* once, whatever the descriptions of the earlier items, and each normalized
\* description prefix of its ticket-less items is kept exactly once among the
\* ticket-less items, whatever tickets the earlier items have: an item with a
\* ticket is dropped only for an earlier item of its ticket, a ticket-less
\* item only for an earlier ticket-less item of its prefix.
C25_SeparateKeys ==
    op = "aggregate" =>
        \A c \in 1..Len(Categories) :
            LET bucket == BucketOf(Val(aggregated), Categories[c])
            IN  \A k \in 1..Len(bucket) :
                    LET own == OwnItems(statuses, Categories[c], bucket[k][1])
                        kept == bucket[k][2]
                    IN  /\ \A i \in Ticketed(own) :
                              Cardinality({j \in Ticketed(kept) :
                                  kept[j].ticket_id = own[i].ticket_id}) = 1
                        /\ \A i \in Ticketless(own) :
                              Cardinality({j \in Ticketless(kept) :
                                  normalized(kept[j]) = normalized(own[i])}) = 1
                        /\ Cardinality(Ticketed(kept))
                              = Cardinality({own[i].ticket_id : i \in Ticketed(own)})
                        /\ Cardinality(Ticketless(kept))
                              = Cardinality({normalized(own[i]) : i \in Ticketless(own)})

\* C25 witness: Carol's done items were a ticketed one, a ticket-less one of
\* the same description, then both again, and done['Carol'] holds the first
\* two
C25_Witness ==
    /\ op = "aggregate"
    /\ Len(statuses) = 2
    /\ statuses[1] = statuses[2]
    /\ Len(statuses[1].done) = 2
    /\ Truthy(statuses[1].done[1].ticket_id)
    /\ ~Truthy(statuses[1].done[2].ticket_id)
    /\ statuses[1].done[1].assignee = "Carol"
    /\ statuses[1].done[2].description = statuses[1].done[1].description
    /\ Val(aggregated).done = <<<<"Carol", statuses[1].done>>>>

----------------------------------------------------------------------------
(* Claims about tickets in the report, checked under SpecReport *)

\* the <<assignee, ticket>> pairs of the items the statuses carry in the
\* list of section h of the report
TicketPairs(sts, h) ==
    LET items == Encountered(sts, Categories[h - 1], 1)
    IN  {<<items[i].assignee, Val(items[i].ticket_id)>> :
            i \in {j \in 1..Len(items) : Truthy(items[j].ticket_id)}}

EndsWith(s, suffix) ==
    Len(s) >= Len(suffix) /\ SubSeq(s, Len(s) - Len(suffix) + 1, Len(s)) = suffix

\* the lines of section h that show the ticket for the assignee
TicketLines(ls, h, pair) ==
    {i \in SectionLines(ls, h) :
        StartsWith(ls[i], pair[2] \o ": ") /\ EndsWith(ls[i], " - @" \o pair[1])}

\* C28: deduplication never crosses buckets: a ticket that the statuses carry
\* for an assignee in a list is shown for that assignee on exactly one line of
\* that list's section, whether or not the same ticket is carried in another
\* list or for another assignee; so one ticket can stand in '2. DONE' and in
\* '3. IN PROGRESS', and in '2. DONE' for two assignees.
C28_BucketsIndependent ==
    (op = "generate" /\ Len(statuses) > 0) =>
        LET ls == SplitLines(report)
        IN  \A h \in 2..4 :
                \A pair \in TicketPairs(statuses, h) :
                    Cardinality(TicketLines(ls, h, pair)) = 1

\* C28 witness: V2-200 is carried for Carol in done and in in_progress and for
\* Alice in done, and the report shows it in '2. DONE' for both and in
\* '3. IN PROGRESS' for Carol
C28_Witness ==
    /\ op = "generate"
    /\ {<<"Carol", "V2-200">>, <<"Alice", "V2-200">>} \subseteq TicketPairs(statuses, 2)
    /\ <<"Carol", "V2-200">> \in TicketPairs(statuses, 3)
    /\ LET ls == SplitLines(report)
       IN  /\ TicketLines(ls, 2, <<"Carol", "V2-200">>) # {}
           /\ TicketLines(ls, 2, <<"Alice", "V2-200">>) # {}
           /\ TicketLines(ls, 3, <<"Carol", "V2-200">>) # {}

\* the notes of the statuses
StatusNotes(sts) == UNION {SeqToSet(sts[i].notes) : i \in 1..Len(sts)}

\* the non-blank lines below the '1. NOTES' header
NotesBlock(ls) ==
    SelectSeq([i \in 1..(HeaderAt(ls, 2) - HeaderAt(ls, 1) - 1) |->
                  ls[HeaderAt(ls, 1) + i]], NotEmptyString)

\* C26: for a non-empty status sequence the '1. NOTES' block is one '- note'
\* line for each distinct note of the statuses, in some order, followed by
\* one '- note' line for each entry of the extra notes, in their order; the
\* block is the 'No special notes this week' line alone when there is neither,
\* and does not hold that line otherwise.
C26_NotesBlock ==
    (op = "generate" /\ Len(statuses) > 0) =>
        LET block == NotesBlock(SplitLines(report))
            own == StatusNotes(statuses)
            extra == IF IsNone(notes) THEN <<>> ELSE Val(notes)
            n == Cardinality(own)
        IN  IF own = {} /\ extra = <<>>
            THEN block = <<"- No special notes this week">>
            ELSE /\ Len(block) = n + Len(extra)
                 /\ {block[i] : i \in 1..n} = {"- " \o note : note \in own}
                 /\ \A i \in 1..Len(extra) : block[n + i] = "- " \o extra[i]
                 /\ "- No special notes this week" \notin SeqToSet(block)

\* C26 witness: two statuses carried the same note, the extra notes repeat it
\* after another one, and the block is the note, the other one, the note
C26_Witness ==
    /\ op = "generate"
    /\ Len(statuses) = 2
    /\ statuses[1].notes = <<"Release moved to Friday">>
    /\ statuses[2].notes = <<"Release moved to Friday">>
    /\ notes = Some(<<"Demo on Thursday", "Release moved to Friday">>)
    /\ NotesBlock(SplitLines(report))
          = <<"- Release moved to Friday", "- Demo on Thursday",
              "- Release moved to Friday">>

----------------------------------------------------------------------------
(* Claims about repeated calls, checked under SpecCalls *)

----------------------------------------------------------------------------
(* Claims about ticketed done items, checked under SpecCat *)

\* the positions of s where 'V2-' or 'V1-' is followed by a digit
VersionTicketAt(s) ==
    {i \in 1..Len(s) :
        /\ i + 3 <= Len(s)
        /\ SubSeq(s, i, i + 2) \in {"V2-", "V1-"}
        /\ Ch(s, i + 3) \in Digits}

\* the item's ticket_id starts with 'V2-' or 'V1-', or its description
\* contains such a ticket id
VersionTicketed(t) ==
    \/ ~IsNone(t.ticket_id) /\ 1 \in VersionTicketAt(Val(t.ticket_id))
    \/ VersionTicketAt(t.description) # {}

\* the items under the label, of all assignees
Under(cats, label) ==
    UNION {InputTasks(cats[c][2]) : c \in {d \in 1..Len(cats) : cats[d][1] = label}}

\* C29: every done item whose ticket_id starts with 'V2-' or 'V1-', or whose
\* description contains such a ticket id, stands under Feature Development
\* whatever its description says; none of them stands under Bug Fixes or any
\* other label.
C29_VersionTickets ==
    op = "_categorize_tasks" =>
        /\ \A t \in InputTasks(done_tasks) :
              VersionTicketed(t) => t \in Under(categorized, "Feature Development")
        /\ \A c \in 1..Len(categorized) :
              categorized[c][1] # "Feature Development"
                  => \A t \in InputTasks(categorized[c][2]) : ~VersionTicketed(t)

\* C29 witness: 'Fix null pointer on checkout' was categorized with ticket
\* V2-301 for one assignee and without a ticket for the other; the first is
\* under Feature Development and the second under Bug Fixes
C29_Witness ==
    /\ op = "_categorize_tasks"
    /\ Under(categorized, "Feature Development")
          = {Task("Fix null pointer on checkout", "Alice", "done", Some("V2-301"), None)}
    /\ Under(categorized, "Bug Fixes")
          = {Task("Fix null pointer on checkout", "Carol", "done", None, None)}

----------------------------------------------------------------------------
(* Claims about the entry points, checked under SpecEntry *)

\* C30: when the week's threads hold at least one reply, the /api/generate
\* handler and the generate command end with a report: success, a non-empty
\* report and no error.
C30_EndsWithReport ==
    (op \in {"api_generate", "cli_generate"} /\ Len(messages) > 0) =>
        /\ Val(response).success
        /\ ~IsNone(Val(response).report)
        /\ Val(Val(response).report) # ""
        /\ IsNone(Val(response).error)

====
